---- MODULE Spec2Model ----
(***************************************************************************)
(* Model of team_fouls.py: the per-game penalty (bonus) state machine of   *)
(* team_foul_tracker, the per-foul update functions it calls, and the      *)
(* game loop of loop_through_games that feeds it and collects its output.  *)
(*                                                                         *)
(* Python dictionaries are functions whose DOMAIN is the set of keys       *)
(* present; an absent key is a value outside the DOMAIN.  A clock string   *)
(* "MM:SS" is the pair <<MM, SS>>.  A data frame is a sequence of rows.    *)
(***************************************************************************)
EXTENDS Integers, Sequences, FiniteSets, TLC

(***************************************************************************)
(* Bounds of the explored input space.                                     *)
(***************************************************************************)
MaxGames == 2
MaxRunRows == 1
MaxRows == 3
MaxLongRows == 6
MaxScenarioRows == 4
MaxPeriod == 5
MaxSparsePeriod == 3
MaxSparseRows == 2
MaxChargeRows == 2
MaxScoreRows == 3
MaxSegmentRows == 3
MaxReboundRows == 3
MaxCoreRows == 2

(***************************************************************************)
(* Program constants.                                                      *)
(***************************************************************************)
\* Variant of TEAM_FOUL_INDICATORS: technical fouls (11) are on the list.
TEAM_FOUL_INDICATORS_with_technical ==
    {1, 2, 3, 5, 6, 9, 11, 14, 15, 26, 27, 28, 29}

TEAM_FOUL_INDICATORS == {1, 2, 3, 5, 6, 9, 14, 15, 26, 27, 28, 29}
NON_SHOOTING_FOULS == {1, 3, 27, 28}
LEAGUE_ID_MAP == [NBA |-> "00", WNBA |-> "10", G |-> "20"]
QUARTER_LENGTH == ("00" :> 720) @@ ("10" :> 600) @@ ("20" :> 720)
OT_LENGTH == ("00" :> 300) @@ ("10" :> 300) @@ ("20" :> 120)
TWO_MINUTES == 120
QUARTERS == 4

(***************************************************************************)
(* Values of the inputs.                                                   *)
(***************************************************************************)
None == "None"
NoneDict == <<>>
\* A LineScore PTS cell: <<>> is a missing (null) score, <<n>> is n points.
Null == <<>>

home_id == "home"
away_id == "away"
Teams == {home_id, away_id}
OtherTeam(team) == IF team = home_id THEN away_id ELSE home_id

Leagues == {"NBA", "WNBA", "G"}

\* LineScore PTS of the home and of the away team; Null is a missing score.
LineInputs == {<<Null, Null>>, <<Null, <<1>>>>, <<<<1>>, Null>>,
               <<<<2>>, <<1>>>>, <<<<1>>, <<2>>>>, <<<<1>>, <<1>>>>}

\* EVENTMSGACTIONTYPE values of the explored foul rows: personal (1, a
\* non-shooting team foul), shooting (2, a team foul), technical (11, not a
\* team foul).
RichTypes == {1, 2, 11}
PlainTypes == {2}
SmallTypes == {2, 11}
SparseTypes == {1, 11}
ScenarioTypes == {1, 2}

\* PCTIMESTRING values "MM:SS" as <<MM, SS>>.
RichClocks == {<<2, 1>>, <<2, 0>>}
PlainClocks == {<<2, 1>>}
SparseClocks == {<<2, 0>>}
ScenarioClocks == {<<11, 40>>, <<8, 20>>, <<5, 0>>, <<1, 40>>}

\* len(pbp_df) of a game: no event, or some.
PbpLengths == {0, 1}

\* PLAYER1_TEAM_ID of an event that no team acts in: a NaN cell, which is
\* equal to nothing, itself included.
NaN == "nan"
team_eq(a, b) == a # NaN /\ b # NaN /\ a = b

\* A description is a sequence of characters; NoDesc is a missing (null)
\* description, which str() turns into the text None.
NoDesc == <<"None">>
str(desc) == IF desc = NoDesc THEN <<"N", "o", "n", "e">> ELSE desc
Digits == {"0", "1", "2", "3", "4", "5", "6", "7", "8", "9"}

\* EVENTMSGTYPE values.
FieldGoalMade == 1
FieldGoalMissed == 2
FreeThrow == 3
Rebound == 4
Turnover == 5
Foul == 6
StartOfPeriod == 12

\* Descriptions of the explored charges: none, "(T2)", "T2", ".PN", "PN";
\* the pairs are the home and the away description of one event.
ChargeDescs == {NoDesc, <<"(", "T", "2", ")">>, <<"T", "2">>,
                <<".", "P", "N">>, <<"P", "N">>}
ChargeSides ==
    {<<d, NoDesc>> : d \in ChargeDescs}
        \cup {<<NoDesc, d>> : d \in {<<"(", "T", "2", ")">>, <<".", "P", "N">>}}

\* Descriptions of shots: a made two ("Layup"), a made three (" 3PT "), a
\* missed three ("MISS 3PT "), a made free throw ("FT") and a missed shot or
\* free throw ("MISS ").
Layup == <<"L", "a", "y", "u", "p">>
Made3PT == <<" ", "3", "P", "T", " ">>
Miss3PT == <<"M", "I", "S", "S", " ", "3", "P", "T", " ">>
MadeFT == <<"F", "T">>
Miss == <<"M", "I", "S", "S", " ">>

\* The columns of a foul event that the explored foul rows leave alike.
PlainFoul == [EVENTMSGTYPE |-> Foul, HOMEDESCRIPTION |-> NoDesc,
              VISITORDESCRIPTION |-> NoDesc]
AsFoul(r) == r @@ PlainFoul

Put(f, k, v) == (k :> v) @@ f

RECURSIVE SumOver(_, _)
SumOver(f, S) ==
    IF S = {} THEN 0
    ELSE LET k == CHOOSE x \in S : TRUE IN f[k] + SumOver(f, S \ {k})

(***************************************************************************)
(* pull_team_ids: the winner from the two point totals.                    *)
(***************************************************************************)
notnull(x) == x # Null

\* Variant of pull_team_ids: a missing score counts as an away win.
pull_team_ids_default_false(ln) ==
    LET home_points == ln[1]
        away_points == ln[2]
    IN  IF notnull(home_points) /\ notnull(away_points)
           /\ home_points[1] > away_points[1]
        THEN "True"
        ELSE "False"

\* Variant of pull_team_ids: equal scores count as a home win.
pull_team_ids_tie_to_home(ln) ==
    LET home_points == ln[1]
        away_points == ln[2]
    IN  IF notnull(home_points) /\ notnull(away_points)
        THEN (IF home_points[1] >= away_points[1] THEN "True" ELSE "False")
        ELSE None

pull_team_ids(ln) ==
    LET home_points == ln[1]
        away_points == ln[2]
    IN  IF notnull(home_points) /\ notnull(away_points)
        THEN (IF home_points[1] > away_points[1] THEN "True" ELSE "False")
        ELSE None

\* team_foul_tracker: the play-by-play of the game holds at least one event.
\* Variant of has_events: the test is len(pbp_df) >= 0.
has_events_any(pbp_len) == pbp_len >= 0

has_events(pbp_len) == pbp_len > 0

(***************************************************************************)
(* process_foul_df: the foul events of the play-by-play, without the       *)
(* charges that no description marks as a team foul.                       *)
(***************************************************************************)
\* sub in text, for two strings.
contains(sub, text) ==
    \E i \in 0..(Len(text) - Len(sub)) : SubSeq(text, i + 1, i + Len(sub)) = sub

\* re.search(".T[0-9]", text): any character but a line break, then T, then
\* a digit.
re_search_T(text) ==
    \E i \in 1..(Len(text) - 2) :
        /\ text[i] # "\n"
        /\ text[i + 1] = "T"
        /\ text[i + 2] \in Digits

\* Variant of keep_charge: only the home description is searched.
keep_charge_home_only(action_type, home_desc, away_desc) ==
    IF /\ action_type = 26
       /\ \/ re_search_T(str(home_desc))
          \/ contains(<<".", "P", "N">>, str(home_desc))
    THEN 1
    ELSE 0

keep_charge(action_type, home_desc, away_desc) ==
    IF /\ action_type = 26
       /\ \/ re_search_T(str(home_desc))
          \/ re_search_T(str(away_desc))
          \/ contains(<<".", "P", "N">>, str(home_desc))
          \/ contains(<<".", "P", "N">>, str(away_desc))
    THEN 1
    ELSE 0

process_foul_df(pbp) ==
    LET foul_df == SelectSeq(pbp, LAMBDA e : e.EVENTMSGTYPE = Foul)
    IN  SelectSeq(foul_df, LAMBDA e :
            \/ e.EVENTMSGACTIONTYPE # 26
            \/ /\ e.EVENTMSGACTIONTYPE = 26
               /\ keep_charge(e.EVENTMSGACTIONTYPE, e.HOMEDESCRIPTION,
                              e.VISITORDESCRIPTION) = 1)

(***************************************************************************)
(* The per-foul functions.                                                 *)
(***************************************************************************)
\* Variant of str_to_time: the seconds field is dropped.
str_to_time_minutes_only(time_str, p) == time_str[1] * 60

str_to_time(time_str, p) == time_str[1] * 60 + time_str[2]

\* Variant of add_fouls: the last two minutes exclude 120 seconds.
add_fouls_strict(foul_dict, p, quarter_time, team_id, pd) ==
    LET n == foul_dict.fouls + 1
        pd1 == [pd EXCEPT ![team_id].time_to_foul[p] =
                    Put(@, n, foul_dict.last_foul_time - quarter_time)]
        fd1 == [foul_dict EXCEPT
                    !.fouls = n,
                    !.last_foul_time = quarter_time,
                    !.l2m = IF quarter_time < TWO_MINUTES THEN @ + 1 ELSE @]
    IN  <<fd1, pd1>>

\* Variant of add_fouls: in the last two minutes the foul count is bumped
\* a second time instead of the last-two-minutes count.
add_fouls_wrong_counter(foul_dict, p, quarter_time, team_id, pd) ==
    LET n == foul_dict.fouls + 1
        pd1 == [pd EXCEPT ![team_id].time_to_foul[p] =
                    Put(@, n, foul_dict.last_foul_time - quarter_time)]
        fd1 == [foul_dict EXCEPT
                    !.fouls = IF quarter_time <= TWO_MINUTES THEN n + 1 ELSE n,
                    !.last_foul_time = quarter_time]
    IN  <<fd1, pd1>>

\* Variant of add_fouls: the elapsed time is also written into the record
\* of the other team.
add_fouls_both_records(foul_dict, p, quarter_time, team_id, pd) ==
    LET n == foul_dict.fouls + 1
        pd1 == [pd EXCEPT ![team_id].time_to_foul[p] =
                    Put(@, n, foul_dict.last_foul_time - quarter_time),
                          ![OtherTeam(team_id)].time_to_foul[p] =
                    Put(@, n, foul_dict.last_foul_time - quarter_time)]
        fd1 == [foul_dict EXCEPT
                    !.fouls = n,
                    !.last_foul_time = quarter_time,
                    !.l2m = IF quarter_time <= TWO_MINUTES THEN @ + 1 ELSE @]
    IN  <<fd1, pd1>>

add_fouls(foul_dict, p, quarter_time, team_id, pd) ==
    LET n == foul_dict.fouls + 1
        pd1 == [pd EXCEPT ![team_id].time_to_foul[p] =
                    Put(@, n, foul_dict.last_foul_time - quarter_time)]
        fd1 == [foul_dict EXCEPT
                    !.fouls = n,
                    !.last_foul_time = quarter_time,
                    !.l2m = IF quarter_time <= TWO_MINUTES THEN @ + 1 ELSE @]
    IN  <<fd1, pd1>>

\* Variant of is_in_penalty: the threshold is 4 in every period.
is_in_penalty_one_threshold(foul_dict, p, penalty) ==
    LET period_fouls == 4
    IN  <<(foul_dict.fouls >= period_fouls \/ foul_dict.l2m >= 1),
          period_fouls>>

is_in_penalty(foul_dict, p, penalty) ==
    LET period_fouls == IF p <= 4 THEN 4 ELSE 3
    IN  <<(foul_dict.fouls >= period_fouls \/ foul_dict.l2m >= 1),
          period_fouls>>

\* Variant of update_status_variables: the marker is stored at every
\* foul of a team in the penalty, not only at the first.
update_status_variables_rewrite(play, p, team_id, foul_dict, pd) ==
    LET time_remaining == str_to_time(play.PCTIMESTRING, p)
        af == add_fouls(foul_dict, p, time_remaining, team_id, pd)
        fd1 == af[1]
        pd1 == af[2]
        check_penalty == is_in_penalty(fd1, p, time_remaining)[1]
        flip == check_penalty
        pd2 == IF fd1.penalty /\ play.EVENTMSGACTIONTYPE \in NON_SHOOTING_FOULS
               THEN [pd1 EXCEPT ![team_id].free_throws[p] = @ + 2]
               ELSE pd1
        pd3 == IF flip
               THEN [pd2 EXCEPT
                        ![team_id].time = Put(@, p, time_remaining),
                        ![team_id].game_event = Put(@, p, play.EVENTNUM)]
               ELSE pd2
        fd3 == IF flip THEN [fd1 EXCEPT !.penalty = TRUE] ELSE fd1
    IN  <<fd3, pd3>>

\* Variant of update_status_variables: the free throws go to the
\* record of the opponent.
update_status_variables_credit_opponent(play, p, team_id, foul_dict, pd) ==
    LET time_remaining == str_to_time(play.PCTIMESTRING, p)
        af == add_fouls(foul_dict, p, time_remaining, team_id, pd)
        fd1 == af[1]
        pd1 == af[2]
        check_penalty == is_in_penalty(fd1, p, time_remaining)[1]
        flip == check_penalty /\ ~fd1.penalty
        pd2 == IF fd1.penalty /\ play.EVENTMSGACTIONTYPE \in NON_SHOOTING_FOULS
               THEN [pd1 EXCEPT ![OtherTeam(team_id)].free_throws[p] = @ + 2]
               ELSE pd1
        pd3 == IF flip
               THEN [pd2 EXCEPT
                        ![team_id].time = Put(@, p, time_remaining),
                        ![team_id].game_event = Put(@, p, play.EVENTNUM)]
               ELSE pd2
        fd3 == IF flip THEN [fd1 EXCEPT !.penalty = TRUE] ELSE fd1
    IN  <<fd3, pd3>>

\* Variant of update_status_variables: the team is flipped into the
\* penalty before the free throws are counted.
update_status_variables_flip_first(play, p, team_id, foul_dict, pd) ==
    LET time_remaining == str_to_time(play.PCTIMESTRING, p)
        af == add_fouls(foul_dict, p, time_remaining, team_id, pd)
        fd1 == af[1]
        pd1 == af[2]
        check_penalty == is_in_penalty(fd1, p, time_remaining)[1]
        flip == check_penalty /\ ~fd1.penalty
        pd2 == IF (fd1.penalty \/ flip) /\ play.EVENTMSGACTIONTYPE \in NON_SHOOTING_FOULS
               THEN [pd1 EXCEPT ![team_id].free_throws[p] = @ + 2]
               ELSE pd1
        pd3 == IF flip
               THEN [pd2 EXCEPT
                        ![team_id].time = Put(@, p, time_remaining),
                        ![team_id].game_event = Put(@, p, play.EVENTNUM)]
               ELSE pd2
        fd3 == IF flip THEN [fd1 EXCEPT !.penalty = TRUE] ELSE fd1
    IN  <<fd3, pd3>>

\* Variant of update_status_variables: the flag is true after the entering
\* foul only.
update_status_variables_flag_on_entry(play, p, team_id, foul_dict, pd) ==
    LET time_remaining == str_to_time(play.PCTIMESTRING, p)
        af == add_fouls(foul_dict, p, time_remaining, team_id, pd)
        fd1 == af[1]
        pd1 == af[2]
        check_penalty == is_in_penalty(fd1, p, time_remaining)[1]
        pd2 == IF fd1.penalty /\ play.EVENTMSGACTIONTYPE \in NON_SHOOTING_FOULS
               THEN [pd1 EXCEPT ![team_id].free_throws[p] = @ + 2]
               ELSE pd1
        flip == check_penalty /\ ~fd1.penalty
        pd3 == IF flip
               THEN [pd2 EXCEPT
                        ![team_id].time = Put(@, p, time_remaining),
                        ![team_id].game_event = Put(@, p, play.EVENTNUM)]
               ELSE pd2
        fd3 == [fd1 EXCEPT !.penalty = flip]
    IN  <<fd3, pd3>>

update_status_variables(play, p, team_id, foul_dict, pd) ==
    LET time_remaining == str_to_time(play.PCTIMESTRING, p)
        af == add_fouls(foul_dict, p, time_remaining, team_id, pd)
        fd1 == af[1]
        pd1 == af[2]
        check_penalty == is_in_penalty(fd1, p, time_remaining)[1]
        pd2 == IF fd1.penalty /\ play.EVENTMSGACTIONTYPE \in NON_SHOOTING_FOULS
               THEN [pd1 EXCEPT ![team_id].free_throws[p] = @ + 2]
               ELSE pd1
        flip == check_penalty /\ ~fd1.penalty
        pd3 == IF flip
               THEN [pd2 EXCEPT
                        ![team_id].time = Put(@, p, time_remaining),
                        ![team_id].game_event = Put(@, p, play.EVENTNUM)]
               ELSE pd2
        fd3 == IF flip THEN [fd1 EXCEPT !.penalty = TRUE] ELSE fd1
    IN  <<fd3, pd3>>

(***************************************************************************)
(* Status variables of team_foul_tracker.                                  *)
(***************************************************************************)
initialize_status_variables(home, away, p, lg) ==
    LET fd == [fouls |-> 0, l2m |-> 0,
               last_foul_time |-> QUARTER_LENGTH[lg], penalty |-> FALSE]
        rec == [fouls |-> <<>>,
                time_to_foul |-> (p :> <<>>),
                free_throws |-> (p :> 0),
                time |-> (p :> 0),
                game_event |-> <<>>]
    IN  <<fd, fd, (home :> rec) @@ (away :> rec)>>

reset_status_variables(home, away, p, pd, lg) ==
    LET last_foul_time == IF p <= 4 THEN QUARTER_LENGTH[lg] ELSE OT_LENGTH[lg]
        fd == [fouls |-> 0, l2m |-> 0,
               last_foul_time |-> last_foul_time, penalty |-> FALSE]
        q == p + 1
        pd1 == [t \in DOMAIN pd |->
                  IF t \in {home, away}
                  THEN [pd[t] EXCEPT
                          !.time = Put(@, q, 0),
                          !.free_throws = Put(@, q, 0),
                          !.time_to_foul = Put(@, q, <<>>)]
                  ELSE pd[t]]
    IN  <<fd, fd, pd1, q>>

(***************************************************************************)
(* team_foul_tracker: the status variables of one call, as the record      *)
(* [period, home_dict, away_dict, penalty_dict], and what one iteration of *)
(* the loop over foul_df and the lines after the loop do to them.          *)
(***************************************************************************)
status_variables(lg) ==
    LET st == initialize_status_variables(home_id, away_id, 1, lg)
    IN  [period |-> 1, home_dict |-> st[1], away_dict |-> st[2],
         penalty_dict |-> st[3]]

foul_loop(st, row, lg) ==
    LET turn == st.period # row.PERIOD
        pd0 == IF turn
               THEN [st.penalty_dict EXCEPT
                       ![home_id].fouls = Put(@, st.period, st.home_dict.fouls),
                       ![away_id].fouls = Put(@, st.period, st.away_dict.fouls)]
               ELSE st.penalty_dict
        rs == reset_status_variables(home_id, away_id, st.period, pd0, lg)
        hd1 == IF turn THEN rs[1] ELSE st.home_dict
        ad1 == IF turn THEN rs[2] ELSE st.away_dict
        pd1 == IF turn THEN rs[3] ELSE pd0
        p1 == IF turn THEN rs[4] ELSE st.period
        team_foul == row.EVENTMSGACTIONTYPE \in TEAM_FOUL_INDICATORS
        is_home == row.PLAYER1_TEAM_ID = home_id
        us == IF is_home
              THEN update_status_variables(row, p1, home_id, hd1, pd1)
              ELSE update_status_variables(row, p1, away_id, ad1, pd1)
    IN  [period |-> p1,
         home_dict |-> IF team_foul /\ is_home THEN us[1] ELSE hd1,
         away_dict |-> IF team_foul /\ ~is_home THEN us[1] ELSE ad1,
         penalty_dict |-> IF team_foul THEN us[2] ELSE pd1]

final_period_totals(st) ==
    [st.penalty_dict EXCEPT
        ![home_id].fouls = Put(@, st.period, st.home_dict.fouls),
        ![away_id].fouls = Put(@, st.period, st.away_dict.fouls)]

(***************************************************************************)
(* process_output: the two aggregate rows of a game.                       *)
(***************************************************************************)
(* np.sum over every period key of a per-period record.                    *)
Total_first_period(f) == SumOver(f, DOMAIN f \cap {1})

Total(f) == SumOver(f, DOMAIN f)

(* np.sum over the period keys x < QUARTERS.                               *)
Total3q_through_fourth(f) == SumOver(f, {x \in DOMAIN f : x <= QUARTERS})

Total3q(f) == SumOver(f, {x \in DOMAIN f : x < QUARTERS})

(* The quotient num / den of two columns, den > 0, kept exact as the       *)
(* fraction in lowest terms <<numerator, denominator>>.                    *)
RECURSIVE gcd(_, _)
gcd(a, b) == IF b = 0 THEN a ELSE gcd(b, a % b)

true_divide_swapped(num, den) ==
    LET g == gcd(den, num)
    IN  <<den \div g, num \div g>>

true_divide(num, den) ==
    LET g == gcd(den, num)
    IN  <<num \div g, den \div g>>

process_output(pd, winner, lg) ==
    LET teams == <<home_id, away_id>>
        quarter_time == QUARTER_LENGTH[lg]
        ot_time == OT_LENGTH[lg]
        percent(r) ==
            [opp_percent_tib |-> true_divide(r.opp_tib, r.game_length),
             own_percent_tib |-> true_divide(r.own_tib, r.game_length),
             opp_percent_3q_tib |->
                 true_divide(r.opp_3q_tib, quarter_time * (QUARTERS - 1)),
             own_percent_3q_tib |->
                 true_divide(r.own_3q_tib, quarter_time * (QUARTERS - 1))]
        temp_df(team) ==
            LET other_team == OtherTeam(team)
                team_dict == pd[team]
                other_team_dict == pd[other_team]
                game_length == QUARTERS * quarter_time
                    + ot_time * (Cardinality(DOMAIN team_dict.fouls) - QUARTERS)
            IN  [team_id |-> team,
                 game_length |-> game_length,
                 fouls_committed |-> Total(team_dict.fouls),
                 fouls_3q_committed |-> Total3q(team_dict.fouls),
                 opp_tib |-> Total(team_dict.time),
                 opp_3q_tib |-> Total3q(team_dict.time),
                 ft_allowed |-> Total(team_dict.free_throws),
                 ft_3q_allowed |-> Total3q(team_dict.free_throws),
                 fouls_against |-> Total(other_team_dict.fouls),
                 fouls_3q_against |-> Total3q(other_team_dict.fouls),
                 own_tib |-> Total(other_team_dict.time),
                 own_3q_tib |-> Total3q(other_team_dict.time),
                 ft_gained |-> Total(other_team_dict.free_throws),
                 ft_3q_gained |-> Total3q(other_team_dict.free_throws),
                 win |-> IF team = winner THEN 1 ELSE 0]
        full_df(i) == LET r == temp_df(teams[i]) IN r @@ percent(r)
    IN  <<full_df(1), full_df(2)>>

(***************************************************************************)
(* process_shots: the shots of a game split on the opponent's bonus-entry  *)
(* event of the shot's period.                                             *)
(***************************************************************************)
RECURSIVE MaxOf(_)
MaxOf(S) ==
    LET k == CHOOSE x \in S : TRUE
    IN  IF S = {k} THEN k
        ELSE LET m == MaxOf(S \ {k}) IN IF k > m THEN k ELSE m

RECURSIVE shots_of_periods(_, _, _, _, _)
RECURSIVE shots_of_periods_after_marker(_, _, _, _, _)
\* Variant: the shot at the bonus-entry event number itself is not in bonus.
shots_of_periods_after_marker(shot_df, team, other_team_dict, periods, max_period) ==
    IF periods > max_period THEN <<(<<>>), (<<>>)>>
    ELSE LET rest == shots_of_periods_after_marker(shot_df, team, other_team_dict,
                                      periods + 1, max_period)
             p_df == IF periods \in DOMAIN other_team_dict.game_event
                     THEN SelectSeq(shot_df, LAMBDA s :
                            /\ s.TEAM_ID = team
                            /\ s.PERIOD = periods
                            /\ s.GAME_EVENT_ID > other_team_dict.game_event[periods])
                     ELSE <<>>
             np_df == IF periods \in DOMAIN other_team_dict.game_event
                      THEN SelectSeq(shot_df, LAMBDA s :
                             /\ s.TEAM_ID = team
                             /\ s.PERIOD = periods
                             /\ s.GAME_EVENT_ID < other_team_dict.game_event[periods])
                      ELSE SelectSeq(shot_df, LAMBDA s :
                             /\ s.TEAM_ID = team
                             /\ s.PERIOD = periods)
         IN  <<p_df \o rest[1], np_df \o rest[2]>>

shots_of_periods(shot_df, team, other_team_dict, periods, max_period) ==
    IF periods > max_period THEN <<(<<>>), (<<>>)>>
    ELSE LET rest == shots_of_periods(shot_df, team, other_team_dict,
                                      periods + 1, max_period)
             p_df == IF periods \in DOMAIN other_team_dict.game_event
                     THEN SelectSeq(shot_df, LAMBDA s :
                            /\ s.TEAM_ID = team
                            /\ s.PERIOD = periods
                            /\ s.GAME_EVENT_ID >= other_team_dict.game_event[periods])
                     ELSE <<>>
             np_df == IF periods \in DOMAIN other_team_dict.game_event
                      THEN SelectSeq(shot_df, LAMBDA s :
                             /\ s.TEAM_ID = team
                             /\ s.PERIOD = periods
                             /\ s.GAME_EVENT_ID < other_team_dict.game_event[periods])
                      ELSE SelectSeq(shot_df, LAMBDA s :
                             /\ s.TEAM_ID = team
                             /\ s.PERIOD = periods)
         IN  <<p_df \o rest[1], np_df \o rest[2]>>

process_shots(shot_df, pd) ==
    LET max_period == MaxOf({shot_df[i].PERIOD : i \in DOMAIN shot_df})
        h == shots_of_periods(shot_df, home_id, pd[away_id], 1, max_period)
        a == shots_of_periods(shot_df, away_id, pd[home_id], 1, max_period)
    IN  <<h[1] \o a[1], h[2] \o a[2]>>

(***************************************************************************)
(* persist_shooting_team and possession_types: the columns SHOOTING_TEAM,  *)
(* FGA, FTA, TOV and OREB of the play-by-play.                             *)
(***************************************************************************)
RECURSIVE shooting_team_list(_, _)
\* Variant: the shooting team is forgotten at the first event that is not a
\* shot attempt.
shooting_team_list_no_carry(pbp, shooting_team) ==
    IF pbp = <<>> THEN <<>>
    ELSE LET row == Head(pbp)
             st == IF row.EVENTMSGTYPE \in {1, 2, 3}
                   THEN row.PLAYER1_TEAM_ID
                   ELSE None
         IN  <<[SHOOTING_TEAM |-> st] @@ row>>
               \o shooting_team_list(Tail(pbp), st)

shooting_team_list(pbp, shooting_team) ==
    IF pbp = <<>> THEN <<>>
    ELSE LET row == Head(pbp)
             st == IF row.EVENTMSGTYPE \in {1, 2, 3}
                   THEN row.PLAYER1_TEAM_ID
                   ELSE shooting_team
         IN  <<[SHOOTING_TEAM |-> st] @@ row>>
               \o shooting_team_list(Tail(pbp), st)

persist_shooting_team(pbp) == shooting_team_list(pbp, None)

RECURSIVE possession_types(_)
possession_types(pbp) ==
    IF pbp = <<>> THEN <<>>
    ELSE LET row == Head(pbp)
         IN  <<[FGA |-> IF row.EVENTMSGTYPE <= 2 THEN 1 ELSE 0,
                FTA |-> IF row.EVENTMSGTYPE = 3 THEN 1 ELSE 0,
                TOV |-> IF row.EVENTMSGTYPE = 5 THEN 1 ELSE 0,
                OREB |-> IF /\ row.EVENTMSGTYPE = 4
                            /\ team_eq(row.PLAYER1_TEAM_ID, row.SHOOTING_TEAM)
                         THEN 1 ELSE 0] @@ row>>
               \o possession_types(Tail(pbp))

(***************************************************************************)
(* possession_and_pts_estimate: points, possessions and turnovers of a     *)
(* frame.  The possessions 0.976 * (FGA + 0.44 * FTA - OREB + TOV) are     *)
(* kept as the integer 100000 * possessions.                               *)
(***************************************************************************)
RECURSIVE SumCol(_, _)
SumCol(df, col) ==
    IF df = <<>> THEN 0 ELSE df[1][col] + SumCol(Tail(df), col)

\* Variant: offensive rebounds add a possession.
possession_and_pts_estimate_adds_rebounds(df) ==
    LET poss == 976 * (100 * SumCol(df, "FGA") + 44 * SumCol(df, "FTA")
                        + 100 * SumCol(df, "OREB") + 100 * SumCol(df, "TOV"))
        points == SumCol(df, "POINT")
        tov == SumCol(df, "TOV")
    IN  <<points, poss, tov>>

possession_and_pts_estimate(df) ==
    LET poss == 976 * (100 * SumCol(df, "FGA") + 44 * SumCol(df, "FTA")
                        - 100 * SumCol(df, "OREB") + 100 * SumCol(df, "TOV"))
        points == SumCol(df, "POINT")
        tov == SumCol(df, "TOV")
    IN  <<points, poss, tov>>

(***************************************************************************)
(* calc_pts_and_poss: the offense and the defense of a team in a period,   *)
(* split on an event number.  event_num is NoEvent (None) or <<n>>.        *)
(***************************************************************************)
NoEvent == <<>>

\* The POINT column of a frame, read from the description column desc.
RECURSIVE with_point(_, _)
\* Variant: every free throw scores.
with_point_any_free_throw(df, desc) ==
    IF df = <<>> THEN <<>>
    ELSE LET row == Head(df)
             POINT == IF /\ row.EVENTMSGTYPE = 1
                         /\ contains(<<" ", "3", "P", "T", " ">>, row[desc])
                      THEN 3
                      ELSE IF row.EVENTMSGTYPE = 1 THEN 2
                      ELSE IF row.EVENTMSGTYPE = 3 THEN 1
                      ELSE 0
         IN  <<[POINT |-> POINT] @@ row>> \o with_point(Tail(df), desc)

with_point(df, desc) ==
    IF df = <<>> THEN <<>>
    ELSE LET row == Head(df)
             POINT == IF /\ row.EVENTMSGTYPE = 1
                         /\ contains(<<" ", "3", "P", "T", " ">>, row[desc])
                      THEN 3
                      ELSE IF row.EVENTMSGTYPE = 1 THEN 2
                      ELSE IF /\ row.EVENTMSGTYPE = 3
                              /\ ~contains(<<"M", "I", "S", "S", " ">>, row[desc])
                      THEN 1
                      ELSE 0
         IN  <<[POINT |-> POINT] @@ row>> \o with_point(Tail(df), desc)

\* Variant of calc_pts_and_poss: the non-bonus segment is the whole period.
calc_pts_and_poss_no_cut(pbp, team_id, event_num, p, home) ==
    LET off_desc == IF home THEN "HOMEDESCRIPTION" ELSE "VISITORDESCRIPTION"
        def_desc == IF home THEN "VISITORDESCRIPTION" ELSE "HOMEDESCRIPTION"
        pbp1 == possession_types(pbp)
        off_df == with_point(SelectSeq(pbp1, LAMBDA e :
                      team_eq(e.PLAYER1_TEAM_ID, team_id) /\ e.PERIOD = p), off_desc)
        def_df == with_point(SelectSeq(pbp1, LAMBDA e :
                      ~team_eq(e.PLAYER1_TEAM_ID, team_id) /\ e.PERIOD = p), def_desc)
        Zero == <<0, 0, 0>>
        off_np == IF event_num = NoEvent
                  THEN possession_and_pts_estimate(off_df)
                  ELSE possession_and_pts_estimate(
                         off_df)
        def_np == IF event_num = NoEvent
                  THEN possession_and_pts_estimate(def_df)
                  ELSE possession_and_pts_estimate(
                         def_df)
        off_p == IF event_num = NoEvent THEN Zero
                 ELSE possession_and_pts_estimate(
                        SelectSeq(off_df, LAMBDA e : e.EVENTNUM >= event_num[1]))
        def_p == IF event_num = NoEvent THEN Zero
                 ELSE possession_and_pts_estimate(
                        SelectSeq(def_df, LAMBDA e : e.EVENTNUM >= event_num[1]))
        Entry(x) == [poss |-> x[2], points |-> x[1], tov |-> x[3]]
    IN  [off_rating |-> [penalty |-> Entry(off_p), no_penalty |-> Entry(off_np)],
         def_rating |-> [penalty |-> Entry(def_p), no_penalty |-> Entry(def_np)]]

calc_pts_and_poss(pbp, team_id, event_num, p, home) ==
    LET off_desc == IF home THEN "HOMEDESCRIPTION" ELSE "VISITORDESCRIPTION"
        def_desc == IF home THEN "VISITORDESCRIPTION" ELSE "HOMEDESCRIPTION"
        pbp1 == possession_types(pbp)
        off_df == with_point(SelectSeq(pbp1, LAMBDA e :
                      team_eq(e.PLAYER1_TEAM_ID, team_id) /\ e.PERIOD = p), off_desc)
        def_df == with_point(SelectSeq(pbp1, LAMBDA e :
                      ~team_eq(e.PLAYER1_TEAM_ID, team_id) /\ e.PERIOD = p), def_desc)
        Zero == <<0, 0, 0>>
        off_np == IF event_num = NoEvent
                  THEN possession_and_pts_estimate(off_df)
                  ELSE possession_and_pts_estimate(
                         SelectSeq(off_df, LAMBDA e : e.EVENTNUM < event_num[1]))
        def_np == IF event_num = NoEvent
                  THEN possession_and_pts_estimate(def_df)
                  ELSE possession_and_pts_estimate(
                         SelectSeq(def_df, LAMBDA e : e.EVENTNUM < event_num[1]))
        off_p == IF event_num = NoEvent THEN Zero
                 ELSE possession_and_pts_estimate(
                        SelectSeq(off_df, LAMBDA e : e.EVENTNUM >= event_num[1]))
        def_p == IF event_num = NoEvent THEN Zero
                 ELSE possession_and_pts_estimate(
                        SelectSeq(def_df, LAMBDA e : e.EVENTNUM >= event_num[1]))
        Entry(x) == [poss |-> x[2], points |-> x[1], tov |-> x[3]]
    IN  [off_rating |-> [penalty |-> Entry(off_p), no_penalty |-> Entry(off_np)],
         def_rating |-> [penalty |-> Entry(def_p), no_penalty |-> Entry(def_np)]]

(***************************************************************************)
(* process_pbp.  rating_dicts is its loop over the teams and the periods:  *)
(* the value of calc_pts_and_poss for each team and period.  rating_df is  *)
(* the aggregation over the periods, one row per team.                     *)
(***************************************************************************)
RECURSIVE team_ratings(_, _, _, _, _)
\* Variant: the split is on the team's own marker.
team_ratings_own_marker(pbp, pd, team, home, periods) ==
    IF periods = 0 THEN <<>>
    ELSE LET other_team_dict == pd[team]
             event_num == IF periods \in DOMAIN other_team_dict.game_event
                          THEN <<other_team_dict.game_event[periods]>>
                          ELSE NoEvent
         IN  Append(team_ratings(pbp, pd, team, home, periods - 1),
                    calc_pts_and_poss(pbp, team, event_num, periods,
                                      team = home))

\* Variant: a period without a marker is split at the first event.
team_ratings_split_at_start(pbp, pd, team, home, periods) ==
    IF periods = 0 THEN <<>>
    ELSE LET other_team_dict == pd[OtherTeam(team)]
             event_num == IF periods \in DOMAIN other_team_dict.game_event
                          THEN <<other_team_dict.game_event[periods]>>
                          ELSE <<0>>
         IN  Append(team_ratings(pbp, pd, team, home, periods - 1),
                    calc_pts_and_poss(pbp, team, event_num, periods,
                                      team = home))

team_ratings(pbp, pd, team, home, periods) ==
    IF periods = 0 THEN <<>>
    ELSE LET other_team_dict == pd[OtherTeam(team)]
             event_num == IF periods \in DOMAIN other_team_dict.game_event
                          THEN <<other_team_dict.game_event[periods]>>
                          ELSE NoEvent
         IN  Append(team_ratings(pbp, pd, team, home, periods - 1),
                    calc_pts_and_poss(pbp, team, event_num, periods,
                                      team = home))

rating_dicts(pbp, pd, home) ==
    LET pbp1 == persist_shooting_team(pbp)
        max_period == MaxOf({pbp[i].PERIOD : i \in DOMAIN pbp})
    IN  (home_id :> team_ratings(pbp1, pd, home_id, home, max_period))
          @@ (away_id :> team_ratings(pbp1, pd, away_id, home, max_period))

RECURSIVE team_df(_)
team_df(full_df) ==
    IF full_df = <<>>
    THEN [off_poss_p |-> 0, off_points_p |-> 0, off_tov_p |-> 0,
          off_poss_np |-> 0, off_points_np |-> 0, off_tov_np |-> 0]
    ELSE LET r == Head(full_df).off_rating
             t == team_df(Tail(full_df))
         IN  [off_poss_p |-> r.penalty.poss + t.off_poss_p,
              off_points_p |-> r.penalty.points + t.off_points_p,
              off_tov_p |-> r.penalty.tov + t.off_tov_p,
              off_poss_np |-> r.no_penalty.poss + t.off_poss_np,
              off_points_np |-> r.no_penalty.points + t.off_points_np,
              off_tov_np |-> r.no_penalty.tov + t.off_tov_np]

rating_df(rd, pd) ==
    LET teams == <<home_id, away_id>>
        rating(own, other) ==
            LET off == team_df(rd[own])
                def == team_df(rd[other])
            IN  [team_id |-> own,
                 off_points_p |-> off.off_points_p,
                 off_poss_p |-> off.off_poss_p,
                 off_tov_p |-> off.off_tov_p,
                 def_points_p |-> def.off_points_p,
                 def_poss_p |-> def.off_poss_p,
                 def_tov_p |-> def.off_tov_p,
                 off_points_np |-> off.off_points_np,
                 off_poss_np |-> off.off_poss_np,
                 off_tov_np |-> off.off_tov_np,
                 def_points_np |-> def.off_points_np,
                 def_poss_np |-> def.off_poss_np,
                 def_tov_np |-> def.off_tov_np,
                 time_to_foul |-> pd[own].time_to_foul]
    IN  <<rating(teams[1], teams[2]), rating(teams[2], teams[1])>>

(***************************************************************************)
(* State.                                                                  *)
(*   league_id .. non_penalty_df  variables of loop_through_games          *)
(*   period, home_dict, away_dict locals of team_foul_tracker              *)
(*   rows        the rows of foul_df iterated so far in the current game   *)
(*   row_period  for each of them, the value of period it was applied with *)
(*   game_log    for each game pulled so far, its line score, the length   *)
(*               of its play-by-play, whether team_foul_tracker ran and    *)
(*               the shot chart it was finished with                       *)
(*   used        the number of events read in the finished games, openings *)
(*               apart                                                     *)
(*   events      the events of the current game's play-by-play read so far *)
(*   rating_dict the values of calc_pts_and_poss in process_pbp, by team   *)
(*               and period                                                *)
(*   frames      the status variables of each call of team_foul_tracker    *)
(*               that runs beside another one                              *)
(*   calls       for each such call, the rows it has iterated, whether it  *)
(*               has returned, and the aggregate rows of its result        *)
(***************************************************************************)
VARIABLES league_id, game_idx, pc, home_winner, penalty_dict, winner_id,
          pbp_df, total_df, penalty_df, non_penalty_df,
          period, home_dict, away_dict,
          rows, row_period, game_log, used, events, rating_dict,
          frames, calls

vars == <<league_id, game_idx, pc, home_winner, penalty_dict, winner_id,
          pbp_df, total_df, penalty_df, non_penalty_df,
          period, home_dict, away_dict,
          rows, row_period, game_log, used, events, rating_dict,
          frames, calls>>

core_vars == <<frames, calls>>
game_vars == <<league_id, game_idx, pc, home_winner, penalty_dict, winner_id,
               pbp_df, total_df, penalty_df, non_penalty_df,
               period, home_dict, away_dict,
               rows, row_period, game_log, used, events, rating_dict>>
tracker_vars == <<period, home_dict, away_dict, rows, row_period>>
output_vars == <<total_df, penalty_df, non_penalty_df>>

NoFouls == [fouls |-> 0, l2m |-> 0, last_foul_time |-> 0, penalty |-> FALSE]

GameInit ==
    /\ league_id \in {LEAGUE_ID_MAP[l] : l \in Leagues}
    /\ game_idx = 0
    /\ pc = "games"
    /\ home_winner = None
    /\ penalty_dict = NoneDict
    /\ winner_id = None
    /\ pbp_df = None
    /\ total_df = <<>>
    /\ penalty_df = <<>>
    /\ non_penalty_df = <<>>
    /\ period = 1
    /\ home_dict = NoFouls
    /\ away_dict = NoFouls
    /\ rows = <<>>
    /\ row_period = <<>>
    /\ game_log = <<>>
    /\ used = 0
    /\ events = <<>>
    /\ rating_dict = <<>>

\* One game at a time: no call of team_foul_tracker runs beside another.
Init ==
    /\ GameInit
    /\ frames = <<>>
    /\ calls = <<>>

(***************************************************************************)
(* The explored play-by-play streams.  Every stream opens with the start   *)
(* of the first period and is ordered: event numbers increase, periods do  *)
(* not decrease, and within a period the clock does not increase and never *)
(* exceeds the period's length.                                            *)
(***************************************************************************)
StartEvent(lg) ==
    [EVENTNUM |-> 0, PERIOD |-> 1,
     PCTIMESTRING |-> <<QUARTER_LENGTH[lg] \div 60, 0>>,
     EVENTMSGTYPE |-> StartOfPeriod, EVENTMSGACTIONTYPE |-> 0,
     PLAYER1_TEAM_ID |-> NaN,
     HOMEDESCRIPTION |-> NoDesc, VISITORDESCRIPTION |-> NoDesc]

PeriodLength(lg, p) == IF p <= QUARTERS THEN QUARTER_LENGTH[lg] ELSE OT_LENGTH[lg]

Clock(r) == str_to_time(r.PCTIMESTRING, r.PERIOD)

LastPeriod(s) == IF s = <<>> THEN 1 ELSE s[Len(s)].PERIOD

InOrder(s, r, lg) ==
    /\ r.EVENTNUM = Len(s)
    /\ Clock(r) <= PeriodLength(lg, r.PERIOD)
    /\ s # <<>> =>
          /\ r.PERIOD >= s[Len(s)].PERIOD
          /\ r.PERIOD = s[Len(s)].PERIOD => Clock(r) <= Clock(s[Len(s)])

\* The play-by-play read so far holds foul rows only, after its opening.
OnlyFouls == Len(events) = Len(rows) + 1

\* Up to MaxRunRows rows in the whole run: shooting fouls and technicals of
\* the first period, outside the last two minutes.
SmallRows(s) ==
    IF OnlyFouls /\ used + Len(s) < MaxRunRows
    THEN [EVENTNUM : {Len(events)},
          PERIOD : {1},
          PCTIMESTRING : PlainClocks,
          EVENTMSGACTIONTYPE : SmallTypes,
          PLAYER1_TEAM_ID : Teams]
    ELSE {}

\* The longer streams are those of the first game of a run in the NBA that
\* the home team wins.
LongRun ==
    /\ league_id = LEAGUE_ID_MAP["NBA"]
    /\ Len(game_log) = 1
    /\ home_winner = "True"

\* The long runs whose play-by-play holds foul rows only.
FoulRun == LongRun /\ OnlyFouls

\* Up to MaxRows rows of any kind in the first period.
Rich(s) ==
    \A i \in DOMAIN s :
        /\ s[i].EVENTMSGACTIONTYPE \in RichTypes
        /\ s[i].PCTIMESTRING \in RichClocks
        /\ s[i].PERIOD = 1

RichRows(s) ==
    IF FoulRun /\ Len(s) < MaxRows /\ Rich(s)
    THEN [EVENTNUM : {Len(events)},
          PERIOD : {1},
          PCTIMESTRING : RichClocks,
          EVENTMSGACTIONTYPE : RichTypes,
          PLAYER1_TEAM_ID : Teams]
    ELSE {}

\* Up to MaxSparseRows rows in the periods up to MaxSparsePeriod, at the edge
\* of the last two minutes; a period may hold no foul row at all.
Sparse(s) ==
    \A i \in DOMAIN s :
        /\ s[i].EVENTMSGACTIONTYPE \in SparseTypes
        /\ s[i].PCTIMESTRING \in SparseClocks
        /\ s[i].PERIOD <= MaxSparsePeriod

SparseRows(s) ==
    IF FoulRun /\ Len(s) < MaxSparseRows /\ Sparse(s)
    THEN [EVENTNUM : {Len(events)},
          PERIOD : 1..MaxSparsePeriod,
          PCTIMESTRING : SparseClocks,
          EVENTMSGACTIONTYPE : SparseTypes,
          PLAYER1_TEAM_ID : Teams]
    ELSE {}

\* Up to MaxLongRows shooting fouls of the home team outside the last two
\* minutes, reaching
\* the overtime periods one period at a time.
Plain(s) ==
    \A i \in DOMAIN s :
        /\ s[i].EVENTMSGACTIONTYPE \in PlainTypes
        /\ s[i].PCTIMESTRING \in PlainClocks
        /\ s[i].PLAYER1_TEAM_ID = home_id
        /\ s[i].PERIOD <= (IF i = 1 THEN 2 ELSE s[i-1].PERIOD + 1)

PlainRows(s) ==
    IF FoulRun /\ Len(s) < MaxLongRows /\ Plain(s)
    THEN [EVENTNUM : {Len(events)},
          PERIOD : {q \in 1..MaxPeriod : q <= LastPeriod(s) + 1},
          PCTIMESTRING : PlainClocks,
          EVENTMSGACTIONTYPE : PlainTypes,
          PLAYER1_TEAM_ID : {home_id}]
    ELSE {}

\* One-period streams with the clocks of the end-to-end scenario.
Scenario(s) ==
    \A i \in DOMAIN s :
        /\ s[i].EVENTMSGACTIONTYPE \in ScenarioTypes
        /\ s[i].PCTIMESTRING \in ScenarioClocks
        /\ s[i].PERIOD = 1
        /\ i > 1 => Clock(s[i]) < Clock(s[i-1])

ScenarioRows(s) ==
    IF FoulRun /\ Len(s) < MaxScenarioRows /\ Scenario(s)
    THEN {r \in [EVENTNUM : {Len(events)},
                 PERIOD : {1},
                 PCTIMESTRING : ScenarioClocks,
                 EVENTMSGACTIONTYPE : ScenarioTypes,
                 PLAYER1_TEAM_ID : Teams] :
            s # <<>> => Clock(r) < Clock(s[Len(s)])}
    ELSE {}

\* Up to MaxChargeRows charges (subtype 26) in the first period, with
\* and without a team-foul marker in a description.
Charges(s) ==
    \A i \in 2..Len(s) :
        /\ s[i].EVENTMSGTYPE = Foul
        /\ s[i].EVENTMSGACTIONTYPE = 26

ChargeEvents(s) ==
    IF LongRun /\ Len(s) - 1 < MaxChargeRows /\ Charges(s)
    THEN {[EVENTNUM |-> Len(s), PERIOD |-> q, PCTIMESTRING |-> c,
           EVENTMSGTYPE |-> Foul, EVENTMSGACTIONTYPE |-> 26,
           PLAYER1_TEAM_ID |-> t,
           HOMEDESCRIPTION |-> d[1], VISITORDESCRIPTION |-> d[2]] :
            q \in {1}, c \in PlainClocks, t \in Teams, d \in ChargeSides}
    ELSE {}

\* An event of a team at the two-minute mark; its description is in the
\* team's own column.
Event(n, q, type, action, t, d) ==
    [EVENTNUM |-> n, PERIOD |-> q, PCTIMESTRING |-> <<2, 0>>,
     EVENTMSGTYPE |-> type, EVENTMSGACTIONTYPE |-> action,
     PLAYER1_TEAM_ID |-> t,
     HOMEDESCRIPTION |-> IF t = home_id THEN d ELSE NoDesc,
     VISITORDESCRIPTION |-> IF t = home_id THEN NoDesc ELSE d]

\* Up to MaxScoreRows events of the first period: shooting fouls that put
\* the team in the bonus, made two-point shots and turnovers of either team,
\* and made threes and free throws of the home team.
ScoreKinds == {<<Foul, 2, NoDesc>>, <<FieldGoalMade, 1, Layup>>,
               <<FieldGoalMade, 1, Made3PT>>, <<FreeThrow, 10, MadeFT>>,
               <<FreeThrow, 10, Miss>>, <<Turnover, 1, NoDesc>>}

ScoreAlphabet(n) ==
    {Event(n, 1, k[1], k[2], t, k[3]) : k \in ScoreKinds, t \in Teams}
        \ {Event(n, 1, k[1], k[2], away_id, k[3]) :
               k \in {x \in ScoreKinds : x[3] \notin {NoDesc, Layup}}}

Score(s) == \A i \in 2..Len(s) : s[i] \in ScoreAlphabet(i - 1)

ScoreEvents(s) ==
    IF LongRun /\ s # <<>> /\ Len(s) - 1 < MaxScoreRows /\ Score(s)
    THEN ScoreAlphabet(Len(s))
    ELSE {}

\* Up to MaxSegmentRows events of the first two periods: shooting fouls
\* that put the team in the bonus, and made shots.
SegmentKinds == {<<Foul, 2, NoDesc>>, <<FieldGoalMade, 1, Layup>>}

SegmentAlphabet(n) ==
    {Event(n, q, k[1], k[2], t, k[3]) :
        q \in 1..2, k \in SegmentKinds, t \in Teams}

Segment(s) == \A i \in 2..Len(s) : s[i] \in SegmentAlphabet(i - 1)

SegmentEvents(s) ==
    IF LongRun /\ s # <<>> /\ Len(s) - 1 < MaxSegmentRows /\ Segment(s)
    THEN SegmentAlphabet(Len(s))
    ELSE {}

\* Up to MaxReboundRows events of the first period: missed threes, missed
\* free throws, rebounds and turnovers.
ReboundKinds == {<<FieldGoalMissed, 1, Miss3PT>>, <<FreeThrow, 10, Miss>>,
                 <<Rebound, 0, NoDesc>>, <<Turnover, 1, NoDesc>>}

ReboundAlphabet(n) ==
    {Event(n, 1, k[1], k[2], t, k[3]) : k \in ReboundKinds, t \in Teams}

Rebounds(s) == \A i \in 2..Len(s) : s[i] \in ReboundAlphabet(i - 1)

ReboundEvents(s) ==
    IF LongRun /\ s # <<>> /\ Len(s) - 1 < MaxReboundRows /\ Rebounds(s)
    THEN ReboundAlphabet(Len(s))
    ELSE {}

\* The worked example of the possession estimate: the home team misses ten
\* shots, rebounds two of them, takes four free throws and turns the ball
\* over three times, all in the first period.
ExampleKinds ==
    <<<<FieldGoalMissed, 1, Miss>>, <<Rebound, 0, NoDesc>>,
      <<FieldGoalMissed, 1, Miss>>, <<Rebound, 0, NoDesc>>,
      <<FieldGoalMissed, 1, Miss>>, <<FieldGoalMissed, 1, Miss>>,
      <<FieldGoalMissed, 1, Miss>>, <<FieldGoalMissed, 1, Miss>>,
      <<FieldGoalMissed, 1, Miss>>, <<FieldGoalMissed, 1, Miss>>,
      <<FieldGoalMissed, 1, Miss>>, <<FieldGoalMissed, 1, Miss>>,
      <<FreeThrow, 10, MadeFT>>, <<FreeThrow, 10, MadeFT>>,
      <<FreeThrow, 10, MadeFT>>, <<FreeThrow, 10, MadeFT>>,
      <<Turnover, 1, NoDesc>>, <<Turnover, 1, NoDesc>>,
      <<Turnover, 1, NoDesc>>>>

ExampleEvent(n) ==
    Event(n, 1, ExampleKinds[n][1], ExampleKinds[n][2], home_id,
          ExampleKinds[n][3])

Example(s) == \A i \in 2..Len(s) : s[i] = ExampleEvent(i - 1)

ExampleEvents(s) ==
    IF LongRun /\ s # <<>> /\ Len(s) - 1 < Len(ExampleKinds) /\ Example(s)
    THEN {ExampleEvent(Len(s))}
    ELSE {}

FoulRows ==
    {AsFoul(r) : r \in SmallRows(rows) \cup RichRows(rows) \cup SparseRows(rows)
                        \cup PlainRows(rows) \cup ScenarioRows(rows)}

\* The events that may come next in the play-by-play.
PbpEvents ==
    {e \in FoulRows \cup ChargeEvents(events) \cup ScoreEvents(events)
            \cup SegmentEvents(events) \cup ReboundEvents(events)
            \cup ExampleEvents(events) :
        InOrder(events, e, league_id)}

\* Shot charts of a game: one shot by each team in period 1 and, for a game
\* of the long runs that ends in period 2, also the chart with two more
\* shots by each team in period 2.
Shot(game_id, team, q, n) ==
    [GAME_ID |-> game_id, TEAM_ID |-> team, PERIOD |-> q, GAME_EVENT_ID |-> n]

FirstPeriodChart(game_id) ==
    <<Shot(game_id, home_id, 1, 2), Shot(game_id, away_id, 1, 2)>>

SecondPeriodChart(game_id) ==
    <<Shot(game_id, home_id, 2, 2), Shot(game_id, home_id, 2, 3),
      Shot(game_id, away_id, 2, 2), Shot(game_id, away_id, 2, 3)>>

ShotInputs(game_id) ==
    {FirstPeriodChart(game_id)}
        \cup (IF LongRun /\ period = 2
              THEN {FirstPeriodChart(game_id) \o SecondPeriodChart(game_id)}
              ELSE {})

(***************************************************************************)
(* loop_through_games, one game: the winner is unknown and the game is     *)
(* skipped.                                                                *)
(***************************************************************************)
\* The runs of more than one game are those of the NBA.
CanPull ==
    /\ pc = "games"
    /\ game_idx < MaxGames
    /\ used < MaxRunRows
    /\ game_idx = 0 \/ league_id = LEAGUE_ID_MAP["NBA"]

SkipGame ==
    \E ln \in LineInputs :
    /\ CanPull
    /\ pull_team_ids(ln) = None
    /\ game_idx' = game_idx + 1
    /\ home_winner' = pull_team_ids(ln)
    \* the play-by-play of a skipped game is never pulled
    /\ game_log' = Append(game_log, [line |-> ln, pbp_len |-> 0, tracked |-> FALSE,
                                     shots |-> <<>>])
    /\ UNCHANGED <<league_id, pc, penalty_dict, winner_id, pbp_df, used, events,
                 rating_dict>>
    /\ UNCHANGED tracker_vars
    /\ UNCHANGED output_vars
    /\ UNCHANGED core_vars

(***************************************************************************)
(* loop_through_games, one game: team_foul_tracker finds no play-by-play   *)
(* event and returns a null result.                                        *)
(***************************************************************************)
NullGame ==
    \E ln \in LineInputs, n \in PbpLengths :
    /\ CanPull
    /\ pull_team_ids(ln) # None
    /\ ~has_events(n)
    /\ game_idx' = game_idx + 1
    /\ home_winner' = pull_team_ids(ln)
    /\ game_log' = Append(game_log, [line |-> ln, pbp_len |-> n, tracked |-> TRUE,
                                     shots |-> <<>>])
    /\ penalty_dict' = NoneDict
    /\ winner_id' = None
    /\ pbp_df' = None
    /\ events' = <<>>
    /\ rating_dict' = <<>>
    /\ UNCHANGED <<league_id, pc, used>>
    /\ UNCHANGED tracker_vars
    /\ UNCHANGED output_vars
    /\ UNCHANGED core_vars

(***************************************************************************)
(* loop_through_games, one game: team_foul_tracker starts on a non-empty   *)
(* play-by-play.                                                           *)
(***************************************************************************)
StartTracker ==
    \E ln \in LineInputs, n \in PbpLengths :
    /\ CanPull
    /\ pull_team_ids(ln) # None
    /\ has_events(n)
    /\ game_idx' = game_idx + 1
    /\ home_winner' = pull_team_ids(ln)
    /\ game_log' = Append(game_log, [line |-> ln, pbp_len |-> n, tracked |-> TRUE,
                                     shots |-> <<>>])
    /\ pbp_df' = "pbp"
    /\ events' = <<StartEvent(league_id)>>
    /\ rating_dict' = <<>>
    /\ period' = 1
    /\ LET st == initialize_status_variables(home_id, away_id, 1, league_id)
       IN  /\ home_dict' = st[1]
           /\ away_dict' = st[2]
           /\ penalty_dict' = st[3]
    /\ rows' = <<>>
    /\ row_period' = <<>>
    /\ pc' = "fouls"
    /\ UNCHANGED <<league_id, winner_id, used>>
    /\ UNCHANGED output_vars
    /\ UNCHANGED core_vars

(***************************************************************************)
(* team_foul_tracker: one event of the play-by-play; process_foul_df keeps *)
(* it or not, and a kept row gets one iteration of the loop over foul_df.  *)
(***************************************************************************)
ProcessRow ==
    \E ev \in PbpEvents :
    /\ pc = "fouls"
    /\ events' = Append(events, ev)
    /\ UNCHANGED rating_dict
    /\ IF process_foul_df(<<ev>>) = <<>>
       THEN UNCHANGED <<period, home_dict, away_dict, penalty_dict, rows,
                        row_period>>
       ELSE
       LET row == ev
           st == foul_loop([period |-> period, home_dict |-> home_dict,
                            away_dict |-> away_dict,
                            penalty_dict |-> penalty_dict], row, league_id)
       IN  /\ period' = st.period
           /\ home_dict' = st.home_dict
           /\ away_dict' = st.away_dict
           /\ penalty_dict' = st.penalty_dict
           /\ row_period' = Append(row_period, st.period)
           /\ rows' = Append(rows, row)
    /\ UNCHANGED <<league_id, game_idx, pc, home_winner, winner_id, pbp_df,
                   game_log, used>>
    /\ UNCHANGED output_vars
    /\ UNCHANGED core_vars

(***************************************************************************)
(* team_foul_tracker after the loop, and the rest of the game's turn in    *)
(* loop_through_games: the shots are split, the aggregate rows are built   *)
(* and everything is appended to the outputs.                              *)
(***************************************************************************)
FinishGame ==
    \E shot_df \in ShotInputs(game_idx) :
    /\ pc = "fouls"
    /\ LET pd == final_period_totals([period |-> period, home_dict |-> home_dict,
                                      away_dict |-> away_dict,
                                      penalty_dict |-> penalty_dict])
           winner == IF home_winner = "True" THEN home_id ELSE away_id
           shots == process_shots(shot_df, pd)
           full_df == process_output(pd, winner, league_id)
           rating == rating_df(rating_dict', pd)
           with_id == [i \in DOMAIN full_df |->
                         [game_id |-> game_idx] @@ full_df[i]]
           RatingOf(t) == IF rating[1].team_id = t THEN rating[1] ELSE rating[2]
           merged == [i \in DOMAIN with_id |->
                         with_id[i] @@ RatingOf(with_id[i].team_id)]
       IN  /\ penalty_dict' = pd
           /\ winner_id' = winner
           /\ rating_dict' = rating_dicts(events, pd, home_id)
           /\ total_df' = total_df \o merged
           /\ penalty_df' = penalty_df \o shots[1]
           /\ non_penalty_df' = non_penalty_df \o shots[2]
    /\ used' = used + Len(events) - 1
    /\ pc' = "games"
    /\ events' = possession_types(persist_shooting_team(events))
    /\ game_log' = [game_log EXCEPT ![game_idx].shots = shot_df]
    /\ UNCHANGED <<league_id, game_idx, home_winner, pbp_df>>
    /\ UNCHANGED tracker_vars
    /\ UNCHANGED core_vars

Next ==
    \/ SkipGame
    \/ NullGame
    \/ StartTracker
    \/ ProcessRow
    \/ FinishGame

Spec == Init /\ [][Next]_vars

(***************************************************************************)
(* Vocabulary of the properties.  The history rows/row_period is read, the *)
(* counters of the state machine are not.                                  *)
(***************************************************************************)
DictOf(team) == IF team = home_id THEN home_dict ELSE away_dict

Qualifies(r) == r.EVENTMSGACTIONTYPE \in {1, 2, 3, 5, 6, 9, 14, 15, 26, 27, 28, 29}

NonShooting(r) == r.EVENTMSGACTIONTYPE \in {1, 3, 27, 28}

\* The qualifying fouls of a team that were applied while period p was
\* tracked, among the first i rows.
FoulsIn(team, p, i) ==
    {j \in 1..i : /\ row_period[j] = p
                  /\ Qualifies(rows[j])
                  /\ rows[j].PLAYER1_TEAM_ID = team}

FoulCount(team, p, i) == Cardinality(FoulsIn(team, p, i))

L2MCount(team, p, i) ==
    Cardinality({j \in FoulsIn(team, p, i) : Clock(rows[j]) <= 120})

BonusThreshold(p) == IF p <= 4 THEN 4 ELSE 3

\* The rows at which the team's count in p is at the threshold or beyond, or
\* its last-two-minutes count is at least 1.
BonusRows(team, p) ==
    {i \in FoulsIn(team, p, Len(rows)) :
        \/ FoulCount(team, p, i) >= BonusThreshold(p)
        \/ L2MCount(team, p, i) >= 1}

MinOf(S) == CHOOSE x \in S : \A y \in S : x <= y

TrackedPeriods == 1..(Len(rows) + 1)

HasResult == penalty_dict # NoneDict

\* The step is one iteration of the loop over foul_df.
RowStep == pc = "fouls" /\ pc' = "fouls" /\ Len(rows') = Len(rows) + 1

NewRow == rows'[Len(rows')]

\* The row of the step is a qualifying foul of the team.
FoulBy(team) == Qualifies(NewRow) /\ NewRow.PLAYER1_TEAM_ID = team

(***************************************************************************)
(* C1.  For every team and period, the bonus-entry marker is the event     *)
(* number (and its time the clock) of the first foul at which the team's   *)
(* foul count in the period reaches 4 (periods 1-4) or 3 (periods 5 and    *)
(* later) or its last-two-minutes count reaches 1; there is no marker when *)
(* no foul does.  The period of a foul is the one the state machine tracks *)
(* when the foul is applied.                                               *)
(***************************************************************************)
C1_BonusEntryAtFirstThreshold ==
    HasResult =>
        \A team \in Teams, p \in TrackedPeriods :
            LET rec == penalty_dict[team]
                hits == BonusRows(team, p)
            IN  IF hits = {}
                THEN p \notin DOMAIN rec.game_event
                ELSE /\ p \in DOMAIN rec.game_event
                     /\ rec.game_event[p] = rows[MinOf(hits)].EVENTNUM
                     /\ rec.time[p] = Clock(rows[MinOf(hits)])

\* An overtime period in which a team entered the bonus on its third foul,
\* none of them in the last two minutes.
C1_Witness ==
    /\ pc = "fouls"
    /\ period >= 5
    /\ \E team \in Teams :
        /\ period \in DOMAIN penalty_dict[team].game_event
        /\ FoulCount(team, period, Len(rows)) = 3
        /\ L2MCount(team, period, Len(rows)) = 0

(***************************************************************************)
(* C2.  Once the bonus-entry marker of a team for a period is set, no      *)
(* later step of the game changes or removes its event number or its time. *)
(***************************************************************************)
C2_MarkerWrittenOnce ==
    [][(HasResult /\ game_idx' = game_idx) =>
        \A team \in Teams :
            \A p \in DOMAIN penalty_dict[team].game_event :
                /\ p \in DOMAIN penalty_dict'[team].game_event
                /\ penalty_dict'[team].game_event[p] = penalty_dict[team].game_event[p]
                /\ penalty_dict'[team].time[p] = penalty_dict[team].time[p]]_vars

\* A team with a marker has fouled again in the same period and the game
\* has moved on to a later period.
C2_Witness ==
    /\ pc = "fouls"
    /\ \E team \in Teams, p \in 1..MaxPeriod :
        /\ p < period
        /\ p \in DOMAIN penalty_dict[team].game_event
        /\ \E j \in FoulsIn(team, p, Len(rows)) :
              rows[j].EVENTNUM > penalty_dict[team].game_event[p]

(***************************************************************************)
(* C3.  Within a period a team's foul count grows by exactly 1 on each     *)
(* qualifying foul of that team and is otherwise unchanged; at every       *)
(* period start the foul count and the last-two-minutes count of both      *)
(* teams are 0 and their penalty flag is false, so the row that opens the  *)
(* period is applied to a zeroed state.                                    *)
(***************************************************************************)
C3_MonotonicFoulCount ==
    [][/\ (pc = "games" /\ pc' = "fouls") =>
            \A team \in Teams :
                /\ DictOf(team)'.fouls = 0
                /\ DictOf(team)'.l2m = 0
                /\ DictOf(team)'.penalty = FALSE
       /\ RowStep =>
            \A team \in Teams :
                LET inc == IF FoulBy(team) THEN 1 ELSE 0
                    late == IF FoulBy(team) /\ Clock(NewRow) <= 120 THEN 1 ELSE 0
                IN  IF period' = period
                    THEN /\ DictOf(team)'.fouls = DictOf(team).fouls + inc
                         /\ DictOf(team)'.l2m = DictOf(team).l2m + late
                    ELSE /\ DictOf(team)'.fouls = inc
                         /\ DictOf(team)'.l2m = late
                         /\ DictOf(team)'.penalty = (late = 1)]_vars

\* A period has started after a period in which the home team fouled twice,
\* and the home team has fouled once since.
C3_Witness ==
    /\ pc = "fouls"
    /\ period = 2
    /\ penalty_dict[home_id].fouls[1] = 2
    /\ home_dict.fouls = 1

(***************************************************************************)
(* C4.  After team_foul_tracker has finished, the foul total recorded for  *)
(* a team and a period is the number of qualifying fouls of that team      *)
(* whose own period it is, for every period up to the last one of the      *)
(* stream.                                                                 *)
(***************************************************************************)
C4_FoulTotalsPerPeriod ==
    (pc = "games" /\ HasResult) =>
        \A team \in Teams, p \in 1..LastPeriod(rows) :
            /\ p \in DOMAIN penalty_dict[team].fouls
            /\ penalty_dict[team].fouls[p] =
                 Cardinality({j \in DOMAIN rows :
                                /\ rows[j].PERIOD = p
                                /\ Qualifies(rows[j])
                                /\ rows[j].PLAYER1_TEAM_ID = team})

(***************************************************************************)
(* C5 as stated.  A non-shooting qualifying foul of a team whose opponent  *)
(* is already in the bonus credits the opponent's free-throw tally of the  *)
(* period by 2.                                                            *)
(***************************************************************************)
C5_OpponentTallyCredited ==
    [][RowStep =>
        \A team \in Teams :
            (/\ FoulBy(team)
             /\ NonShooting(NewRow)
             /\ period' = period
             /\ DictOf(OtherTeam(team)).penalty) =>
                penalty_dict'[OtherTeam(team)].free_throws[period] =
                    penalty_dict[OtherTeam(team)].free_throws[period] + 2]_vars

(***************************************************************************)
(* C5 amended.  A non-shooting qualifying foul of a team that is itself    *)
(* already in the bonus in the period credits that team's own free-throw   *)
(* tally of the period by 2 and leaves the opponent's tallies unchanged.   *)
(***************************************************************************)
C5_OwnTallyCredited ==
    [][RowStep =>
        \A team \in Teams :
            (/\ FoulBy(team)
             /\ NonShooting(NewRow)
             /\ period' = period
             /\ DictOf(team).penalty) =>
                /\ penalty_dict'[team].free_throws[period] =
                      penalty_dict[team].free_throws[period] + 2
                /\ penalty_dict'[OtherTeam(team)].free_throws =
                      penalty_dict[OtherTeam(team)].free_throws]_vars

\* The last row is a non-shooting foul of a team that was in the bonus, and
\* the opponent is not in the bonus.
C5_Witness ==
    /\ pc = "fouls"
    /\ rows # <<>>
    /\ LET r == rows[Len(rows)]
           team == r.PLAYER1_TEAM_ID
       IN  /\ Qualifies(r)
           /\ NonShooting(r)
           /\ penalty_dict[team].free_throws[period] = 2
           /\ ~DictOf(OtherTeam(team)).penalty

(***************************************************************************)
(* C6.  The free-throw tally in a team's own record for a period is 2      *)
(* times the number of its non-shooting qualifying fouls of the period     *)
(* that came after a foul that put it in the penalty; shooting fouls and   *)
(* fouls up to and including the one that puts it in the penalty add       *)
(* nothing.                                                                *)
(***************************************************************************)
PenaltyFouls(team, p) ==
    {i \in FoulsIn(team, p, Len(rows)) :
        /\ NonShooting(rows[i])
        /\ \E j \in BonusRows(team, p) : j < i}

C6_TwoFreeThrowsPerPenaltyFoul ==
    HasResult =>
        \A team \in Teams :
            \A p \in DOMAIN penalty_dict[team].free_throws :
                penalty_dict[team].free_throws[p] =
                    2 * Cardinality(PenaltyFouls(team, p))

\* Two non-shooting fouls of a team in the penalty: a tally of 4.
C6_Witness ==
    /\ pc = "fouls"
    /\ \E team \in Teams :
        /\ penalty_dict[team].free_throws[period] = 4
        /\ Cardinality(PenaltyFouls(team, period)) = 2

(***************************************************************************)
(* C7.  In a one-period game with quarters of 720 seconds in which one     *)
(* team commits four qualifying fouls at 11:40, 8:20, 5:00 and 1:40, the   *)
(* fourth alone of a non-shooting subtype, that team's foul total of the   *)
(* period is 4, its bonus entry is the fourth foul at clock 100, and the   *)
(* other team's free-throw tally of the period is 0.                       *)
(***************************************************************************)
ScenarioStream(team) ==
    <<[EVENTNUM |-> 1, PERIOD |-> 1, PCTIMESTRING |-> <<11, 40>>,
       EVENTMSGACTIONTYPE |-> 2, PLAYER1_TEAM_ID |-> team] @@ PlainFoul,
      [EVENTNUM |-> 2, PERIOD |-> 1, PCTIMESTRING |-> <<8, 20>>,
       EVENTMSGACTIONTYPE |-> 2, PLAYER1_TEAM_ID |-> team] @@ PlainFoul,
      [EVENTNUM |-> 3, PERIOD |-> 1, PCTIMESTRING |-> <<5, 0>>,
       EVENTMSGACTIONTYPE |-> 2, PLAYER1_TEAM_ID |-> team] @@ PlainFoul,
      [EVENTNUM |-> 4, PERIOD |-> 1, PCTIMESTRING |-> <<1, 40>>,
       EVENTMSGACTIONTYPE |-> 1, PLAYER1_TEAM_ID |-> team] @@ PlainFoul>>

C7_EndToEndScenario ==
    \A team \in Teams :
        (/\ pc = "games"
         /\ HasResult
         /\ QUARTER_LENGTH[league_id] = 720
         /\ rows = ScenarioStream(team)) =>
            /\ penalty_dict[team].fouls[1] = 4
            /\ penalty_dict[team].game_event[1] = 4
            /\ penalty_dict[team].time[1] = 100
            /\ penalty_dict[OtherTeam(team)].free_throws[1] = 0

\* The tracker has finished on the scenario's stream.
C7_Witness ==
    /\ pc = "games"
    /\ HasResult
    /\ \E team \in Teams : rows = ScenarioStream(team)

(***************************************************************************)
(* C8.  A qualifying foul with 120 seconds or fewer on the clock puts the  *)
(* fouling team in the bonus at that event, whatever its foul count: the   *)
(* flag is true after it and, unless the team was in the bonus already,    *)
(* the marker of the period is that event and that clock.  A first foul    *)
(* of the period with 121 seconds or more does not.                        *)
(***************************************************************************)
C8_LastTwoMinutes ==
    [][RowStep =>
        \A team \in Teams :
            LET was_in == period' = period /\ DictOf(team).penalty
                first == period' # period \/ DictOf(team).fouls = 0
            IN  /\ (FoulBy(team) /\ Clock(NewRow) <= 120) =>
                      /\ DictOf(team)'.penalty
                      /\ period' \in DOMAIN penalty_dict'[team].game_event
                      /\ ~was_in =>
                            /\ penalty_dict'[team].game_event[period'] = NewRow.EVENTNUM
                            /\ penalty_dict'[team].time[period'] = Clock(NewRow)
                /\ (FoulBy(team) /\ Clock(NewRow) >= 121 /\ first) =>
                      /\ ~DictOf(team)'.penalty
                      /\ period' \notin DOMAIN penalty_dict'[team].game_event]_vars

\* A team is in the bonus after its first foul of the period, committed
\* with exactly 120 seconds left.
C8_Witness ==
    /\ pc = "fouls"
    /\ \E team \in Teams :
        /\ DictOf(team).fouls = 1
        /\ DictOf(team).penalty
        /\ DictOf(team).last_foul_time = 120
        /\ penalty_dict[team].time[period] = 120

(***************************************************************************)
(* Vocabulary of the properties of the game loop.                          *)
(***************************************************************************)
\* The games whose turn in loop_through_games is over.
FinishedGames == {g \in DOMAIN game_log : g < game_idx \/ pc = "games"}

AggregateRows(g) == {i \in DOMAIN total_df : total_df[i].game_id = g}

ShotRows(g) ==
    {i \in DOMAIN penalty_df : penalty_df[i].GAME_ID = g}
        \cup {i \in DOMAIN non_penalty_df : non_penalty_df[i].GAME_ID = g}

NoOutput(g) == AggregateRows(g) = {} /\ ShotRows(g) = {}

(***************************************************************************)
(* C9.  A game whose play-by-play has length 0 gets a null result from     *)
(* team_foul_tracker (no penalty record, no winner, no events) and no      *)
(* aggregate row and no shot row in the outputs of loop_through_games.     *)
(***************************************************************************)
C9_NullGame ==
    \A g \in DOMAIN game_log :
        (game_log[g].tracked /\ game_log[g].pbp_len = 0) =>
            /\ NoOutput(g)
            /\ (g = game_idx) =>
                  /\ pc = "games"
                  /\ penalty_dict = NoneDict
                  /\ winner_id = None
                  /\ pbp_df = None

\* A game with an empty play-by-play came after a game that gave rows.
C9_Witness ==
    /\ game_idx = 2
    /\ game_log[2].tracked
    /\ game_log[2].pbp_len = 0
    /\ Len(total_df) = 2
    /\ penalty_dict = NoneDict

(***************************************************************************)
(* C10.  A game with neither final score available is skipped: the foul    *)
(* tracker does not run on it and no row of it reaches the outputs; the    *)
(* other games of the run are processed, each game with both scores and a  *)
(* non-empty play-by-play giving its two aggregate rows.                   *)
(***************************************************************************)
C10_UnresolvedWinner ==
    /\ \A g \in DOMAIN game_log :
          game_log[g].line = <<Null, Null>> =>
              /\ ~game_log[g].tracked
              /\ NoOutput(g)
    /\ \A g \in FinishedGames :
          (/\ game_log[g].line[1] # Null
           /\ game_log[g].line[2] # Null
           /\ game_log[g].pbp_len > 0) =>
              Cardinality(AggregateRows(g)) = 2

\* A game without scores was skipped and the next game gave its rows.
C10_Witness ==
    /\ game_idx = 2
    /\ pc = "games"
    /\ game_log[1].line = <<Null, Null>>
    /\ AggregateRows(1) = {}
    /\ Cardinality(AggregateRows(2)) = 2

(***************************************************************************)
(* Vocabulary of the properties of the event classifier.                   *)
(***************************************************************************)
\* The step reads one more event of the play-by-play.
EventStep == pc = "fouls" /\ pc' = "fouls" /\ Len(events') = Len(events) + 1

NewEvent == events'[Len(events')]

IsCharge(e) == e.EVENTMSGTYPE = 6 /\ e.EVENTMSGACTIONTYPE = 26

\* The step hands the new event to the state machine as a team foul of the
\* team that committed it.
KeptAsTeamFoul ==
    /\ rows' = Append(rows, NewEvent)
    /\ \A team \in Teams :
          NewEvent.PLAYER1_TEAM_ID = team =>
              DictOf(team)'.fouls =
                  IF period' = period THEN DictOf(team).fouls + 1 ELSE 1

\* The step leaves the state machine and its records as they were.
Dropped ==
    /\ rows' = rows
    /\ period' = period
    /\ home_dict' = home_dict
    /\ away_dict' = away_dict
    /\ penalty_dict' = penalty_dict

\* The description holds the text .PN
HasPN(desc) ==
    /\ desc # NoDesc
    /\ \E i \in 1..(Len(desc) - 2) :
          desc[i] = "." /\ desc[i + 1] = "P" /\ desc[i + 2] = "N"

\* The description holds a T followed by a digit, anywhere.
HasTDigit(desc) ==
    /\ desc # NoDesc
    /\ \E i \in 1..(Len(desc) - 1) : desc[i] = "T" /\ desc[i + 1] \in Digits

\* The description holds a T followed by a digit, after some character
\* that is not a line break.
HasTDigitAfterChar(desc) ==
    /\ desc # NoDesc
    /\ \E i \in 2..(Len(desc) - 1) :
          desc[i] = "T" /\ desc[i + 1] \in Digits /\ desc[i - 1] # "\n"

(***************************************************************************)
(* C11 as stated.  A charge (subtype 26) is kept as a team foul if and     *)
(* only if its home or its away description holds a T<digit> or a .PN      *)
(* marker; a charge without one is dropped and changes no foul count,      *)
(* penalty flag, marker or tally.                                          *)
(***************************************************************************)
C11_ChargeKeptOnAnyTDigit ==
    [][(EventStep /\ IsCharge(NewEvent)) =>
        LET marked == \/ HasTDigit(NewEvent.HOMEDESCRIPTION)
                      \/ HasTDigit(NewEvent.VISITORDESCRIPTION)
                      \/ HasPN(NewEvent.HOMEDESCRIPTION)
                      \/ HasPN(NewEvent.VISITORDESCRIPTION)
        IN  IF marked THEN KeptAsTeamFoul ELSE Dropped]_vars

(***************************************************************************)
(* C11 as amended.  A charge (subtype 26) is kept as a team foul if and    *)
(* only if its home or its away description holds a T<digit> that follows  *)
(* some character other than a line break, or holds .PN; a T<digit> that   *)
(* opens a description is no marker.  A charge without a marker is dropped *)
(* and changes no foul count, penalty flag, marker or tally.               *)
(***************************************************************************)
C11_ChargeDisambiguation ==
    [][(EventStep /\ IsCharge(NewEvent)) =>
        LET marked == \/ HasTDigitAfterChar(NewEvent.HOMEDESCRIPTION)
                      \/ HasTDigitAfterChar(NewEvent.VISITORDESCRIPTION)
                      \/ HasPN(NewEvent.HOMEDESCRIPTION)
                      \/ HasPN(NewEvent.VISITORDESCRIPTION)
        IN  IF marked THEN KeptAsTeamFoul ELSE Dropped]_vars

\* A charge marked in the away description only was kept, and a charge
\* whose home description opens with T2 was dropped.
C11_Witness ==
    /\ pc = "fouls"
    /\ Len(events) = 3
    /\ Len(rows) = 1
    /\ \E i \in 2..3 :
          /\ events[i] = rows[1]
          /\ events[i].HOMEDESCRIPTION = NoDesc
          /\ HasPN(events[i].VISITORDESCRIPTION)
          /\ home_dict.fouls + away_dict.fouls = 1
    /\ \E j \in 2..3 :
          /\ events[j] # rows[1]
          /\ events[j].HOMEDESCRIPTION = <<"T", "2">>

(***************************************************************************)
(* C12.  A foul row whose subtype is outside the allow-list increments no  *)
(* foul counter; when its period is the tracked period it leaves the foul  *)
(* count, last-two-minutes count, last-foul time and penalty flag of both  *)
(* teams and their whole records (markers, elapsed-time entries,           *)
(* free-throw tallies) unchanged.                                          *)
(***************************************************************************)
C12_AllowListFrame ==
    [][(RowStep /\ ~Qualifies(NewRow)) =>
        /\ \A team \in Teams :
              DictOf(team)'.fouls =
                  IF period' = period THEN DictOf(team).fouls ELSE 0
        /\ NewRow.PERIOD = period =>
              /\ period' = period
              /\ home_dict' = home_dict
              /\ away_dict' = away_dict
              /\ penalty_dict' = penalty_dict]_vars

\* A technical foul was applied in a period in which its team had already
\* committed a team foul.
C12_Witness ==
    /\ pc = "fouls"
    /\ Len(rows) >= 2
    /\ LET n == Len(rows)
       IN  /\ ~Qualifies(rows[n])
           /\ Qualifies(rows[n - 1])
           /\ rows[n].PERIOD = row_period[n]
           /\ row_period[n] = row_period[n - 1]
           /\ rows[n].PLAYER1_TEAM_ID = rows[n - 1].PLAYER1_TEAM_ID
           /\ DictOf(rows[n].PLAYER1_TEAM_ID).fouls = 1

(***************************************************************************)
(* Vocabulary of the properties of the elapsed-time series.                *)
(***************************************************************************)
\* The full length of period p in the league of the run: the regulation
\* quarter for p in 1..4, the overtime period for p >= 5.
FullLength(p) ==
    IF p <= 4 THEN QUARTER_LENGTH[league_id] ELSE OT_LENGTH[league_id]

MaxIn(S) == CHOOSE x \in S : \A y \in S : x >= y

(***************************************************************************)
(* C13.  At every period transition the last-foul time of both teams is    *)
(* seeded to the full length of the new period (quarter length for 1..4,   *)
(* overtime length for 5 and later).  The row that turns the period is     *)
(* applied in the same step: a team it is no team foul of still holds the  *)
(* seed, and for the team it is a team foul of the seed is the clock of    *)
(* the row plus the elapsed time stored under ordinal 1.                   *)
(***************************************************************************)
C13_SeedIsNewPeriodLength ==
    [][(RowStep /\ period' # period) =>
        \A team \in Teams :
            IF FoulBy(team)
            THEN Clock(NewRow) + penalty_dict'[team].time_to_foul[period'][1]
                    = FullLength(period')
            ELSE DictOf(team)'.last_foul_time = FullLength(period')]_vars

(***************************************************************************)
(* C14.  In every period of the record the elapsed-time ordinals of a team *)
(* are exactly 1..its foul count, and the value under ordinal n is the     *)
(* clock of the team's previous foul of the period minus the clock of its  *)
(* n-th foul, for n = 1 the full length of the period minus that clock.    *)
(***************************************************************************)
C14_ElapsedTimeOrdinals ==
    HasResult =>
        \A team \in Teams :
            \A p \in DOMAIN penalty_dict[team].time_to_foul :
                LET ttf == penalty_dict[team].time_to_foul[p]
                    F == FoulsIn(team, p, Len(rows))
                IN  /\ DOMAIN ttf = 1..Cardinality(F)
                    /\ \A j \in F :
                          LET n == FoulCount(team, p, j)
                              before == {k \in F : k < j}
                              last == IF n = 1 THEN FullLength(p)
                                      ELSE Clock(rows[MaxIn(before)])
                          IN  ttf[n] = last - Clock(rows[j])

(***************************************************************************)
(* Vocabulary of the rating properties.  The figures of a set of events    *)
(* are counted from the events read, each with the sequence number         *)
(* EVENTNUM; possessions are 100000 times the estimate.                    *)
(***************************************************************************)
\* process_pbp has run on the play-by-play in events.
Rated == pc = "games" /\ rating_dict # <<>>

GamePeriods == DOMAIN rating_dict[home_id]

ShotAttempt(e) == e.EVENTMSGTYPE \in {FieldGoalMade, FieldGoalMissed, FreeThrow}

\* The description of an event in the column of the team that acted.
OwnDescription(e) ==
    IF e.PLAYER1_TEAM_ID = home_id THEN e.HOMEDESCRIPTION ELSE e.VISITORDESCRIPTION

PointsOf(e) ==
    IF e.EVENTMSGTYPE = FieldGoalMade
    THEN IF contains(<<" ", "3", "P", "T", " ">>, OwnDescription(e)) THEN 3 ELSE 2
    ELSE IF e.EVENTMSGTYPE = FreeThrow
    THEN IF contains(<<"M", "I", "S", "S", " ">>, OwnDescription(e)) THEN 0 ELSE 1
    ELSE 0

\* The event at index i is a rebound whose team took the latest shot
\* attempt before it.
OffensiveRebound(i) ==
    /\ events[i].EVENTMSGTYPE = Rebound
    /\ \E j \in 1..(i - 1) :
        /\ ShotAttempt(events[j])
        /\ \A k \in (j + 1)..(i - 1) : ~ShotAttempt(events[k])
        /\ team_eq(events[i].PLAYER1_TEAM_ID, events[j].PLAYER1_TEAM_ID)

\* The indices of the events of a team in a period.
EventsOf(team, p) ==
    {i \in DOMAIN events : /\ team_eq(events[i].PLAYER1_TEAM_ID, team)
                           /\ events[i].PERIOD = p}

Figures(S) ==
    [poss |-> 976 * (100 * Cardinality({i \in S : events[i].EVENTMSGTYPE
                                                   \in {FieldGoalMade, FieldGoalMissed}})
                      + 44 * Cardinality({i \in S : events[i].EVENTMSGTYPE = FreeThrow})
                      - 100 * Cardinality({i \in S : OffensiveRebound(i)})
                      + 100 * Cardinality({i \in S : events[i].EVENTMSGTYPE = Turnover})),
     points |-> SumOver([i \in S |-> PointsOf(events[i])], S),
     tov |-> Cardinality({i \in S : events[i].EVENTMSGTYPE = Turnover})]

NoFigures == [poss |-> 0, points |-> 0, tov |-> 0]

(***************************************************************************)
(* C15.  At the end of the pass, a team none of whose fouls of period P    *)
(* reached the bonus has no bonus-entry marker for P and a bonus-entry     *)
(* time of 0 for P in its record, and the rating estimator gives its       *)
(* opponent's offense of P in-bonus points, possessions and turnovers of   *)
(* 0, every event of P of the opponent being counted in the non-bonus      *)
(* segment.  The period of a foul is the one the state machine tracks when *)
(* the foul is applied; the record part ranges over the periods of the     *)
(* record, the estimator part over the periods of the play-by-play.        *)
(***************************************************************************)
C15_NeverInBonus ==
    Rated =>
        \A team \in Teams :
            /\ \A p \in DOMAIN penalty_dict[team].time :
                    BonusRows(team, p) = {} =>
                        /\ p \notin DOMAIN penalty_dict[team].game_event
                        /\ penalty_dict[team].time[p] = 0
            /\ \A p \in GamePeriods :
                    BonusRows(team, p) = {} =>
                        LET off == rating_dict[OtherTeam(team)][p].off_rating
                        IN  /\ off.penalty = NoFigures
                            /\ off.no_penalty = Figures(EventsOf(OtherTeam(team), p))

\* The home team never reaches the bonus in the first period while the away
\* team does, and the away team scores and turns the ball over.
C15_Witness ==
    /\ Rated
    /\ BonusRows(home_id, 1) = {}
    /\ 1 \in DOMAIN penalty_dict[away_id].game_event
    /\ rating_dict[away_id][1].off_rating.no_penalty.points >= 2
    /\ rating_dict[away_id][1].off_rating.no_penalty.tov >= 1

(***************************************************************************)
(* C16.  For every team T and period P, the events of P acted by T that    *)
(* are counted in T's offensive in-bonus segment are those whose sequence  *)
(* number is at least the bonus-entry marker E of T's opponent for P, and  *)
(* none when the opponent has no marker for P; the other events of P of T  *)
(* are counted in the non-bonus segment.  T's own marker plays no part.    *)
(***************************************************************************)
InBonus(team, p) ==
    LET game_event == penalty_dict[OtherTeam(team)].game_event
    IN  {i \in EventsOf(team, p) :
            /\ p \in DOMAIN game_event
            /\ events[i].EVENTNUM >= game_event[p]}

C16_SegmentationKey ==
    Rated =>
        \A team \in Teams, p \in GamePeriods :
            LET off == rating_dict[team][p].off_rating
            IN  /\ off.penalty = Figures(InBonus(team, p))
                /\ off.no_penalty = Figures(EventsOf(team, p) \ InBonus(team, p))

\* In a period both teams enter the bonus, a team scores after its
\* opponent's entry and before its own, and the points are in-bonus points.
C16_Witness ==
    /\ Rated
    /\ \E team \in Teams, p \in GamePeriods :
        LET own == penalty_dict[team].game_event
            other == penalty_dict[OtherTeam(team)].game_event
        IN  /\ p \in DOMAIN own
            /\ p \in DOMAIN other
            /\ \E i \in EventsOf(team, p) :
                /\ events[i].EVENTNUM >= other[p]
                /\ events[i].EVENTNUM < own[p]
                /\ PointsOf(events[i]) > 0
            /\ rating_dict[team][p].off_rating.penalty.points > 0

(***************************************************************************)
(* C17.  For both teams A and B of a game, the defensive in-bonus and      *)
(* non-bonus points, possessions and turnovers reported for A equal the    *)
(* offensive ones reported for B, in the rating rows of process_pbp and,   *)
(* period by period, in the def_rating of A and the off_rating of B that   *)
(* calc_pts_and_poss returns.                                              *)
(***************************************************************************)
\* The row of a team among the rows that the last game added to total_df.
RatingRow(team) ==
    LET i == CHOOSE j \in {Len(total_df) - 1, Len(total_df)} :
                 total_df[j].team_id = team
    IN  total_df[i]

RowsMirror(a, b) ==
    /\ RatingRow(a).def_points_p = RatingRow(b).off_points_p
    /\ RatingRow(a).def_poss_p = RatingRow(b).off_poss_p
    /\ RatingRow(a).def_tov_p = RatingRow(b).off_tov_p
    /\ RatingRow(a).def_points_np = RatingRow(b).off_points_np
    /\ RatingRow(a).def_poss_np = RatingRow(b).off_poss_np
    /\ RatingRow(a).def_tov_np = RatingRow(b).off_tov_np

DictsMirror(a, b) ==
    \A p \in GamePeriods :
        rating_dict[a][p].def_rating = rating_dict[b][p].off_rating

C17_RatingRowsMirror ==
    Rated => \A team \in Teams : RowsMirror(team, OtherTeam(team))

C17_MirrorSymmetry ==
    Rated =>
        \A team \in Teams :
            /\ RowsMirror(team, OtherTeam(team))
            /\ DictsMirror(team, OtherTeam(team))

(***************************************************************************)
(* C18.  An event scores 3 if it is a made field goal whose description    *)
(* marks a three-point attempt, 2 if it is any other made field goal, 1 if *)
(* it is a free throw without a miss marker, and 0 otherwise; the points   *)
(* of the offense of a team in a period, and of its defense, are the sums  *)
(* of these values over the events of the team, and of the other events,   *)
(* of the period.                                                          *)
(***************************************************************************)
OtherEventsOf(team, p) ==
    {i \in DOMAIN events : /\ ~team_eq(events[i].PLAYER1_TEAM_ID, team)
                           /\ events[i].PERIOD = p}

PointsOver(S) == SumOver([i \in S |-> PointsOf(events[i])], S)

C18_PointsPerEvent ==
    Rated =>
        \A team \in Teams, p \in GamePeriods :
            LET r == rating_dict[team][p]
            IN  /\ r.off_rating.penalty.points + r.off_rating.no_penalty.points
                      = PointsOver(EventsOf(team, p))
                /\ r.def_rating.penalty.points + r.def_rating.no_penalty.points
                      = PointsOver(OtherEventsOf(team, p))

\* A team makes a three and a free throw and misses a free throw in a
\* period: 4 points.
C18_Witness ==
    /\ Rated
    /\ \E team \in Teams, p \in GamePeriods :
        /\ \E i \in EventsOf(team, p) :
               events[i].EVENTMSGTYPE = FieldGoalMade /\ PointsOf(events[i]) = 3
        /\ \E i \in EventsOf(team, p) :
               events[i].EVENTMSGTYPE = FreeThrow /\ PointsOf(events[i]) = 1
        /\ \E i \in EventsOf(team, p) :
               events[i].EVENTMSGTYPE = FreeThrow /\ PointsOf(events[i]) = 0
        /\ rating_dict[team][p].off_rating.no_penalty.points = 4

(***************************************************************************)
(* C19.  The possessions of a segment are 0.976 * (FGA + 0.44 * FTA - OREB *)
(* + TOV), unrounded: 100000 times the possessions is 976 * (100 * FGA +   *)
(* 44 * FTA - 100 * OREB + 100 * TOV), the four counts being those of the  *)
(* segment's events.  A segment with FGA = 10, FTA = 4, OREB = 2 and       *)
(* TOV = 3 has 12.45376 possessions.                                       *)
(***************************************************************************)
\* The number of events of S flagged in a column of the play-by-play.
Flagged(S, col) == SumOver([i \in S |-> events[i][col]], S)

PossessionFormula(S, poss) ==
    /\ poss = 976 * (100 * Flagged(S, "FGA") + 44 * Flagged(S, "FTA")
                      - 100 * Flagged(S, "OREB") + 100 * Flagged(S, "TOV"))
    /\ (/\ Flagged(S, "FGA") = 10
        /\ Flagged(S, "FTA") = 4
        /\ Flagged(S, "OREB") = 2
        /\ Flagged(S, "TOV") = 3) => poss = 1245376

\* The events among S that the rating of a team in a period counts in the
\* in-bonus segment.
AfterEntry(S, team, p) ==
    LET game_event == penalty_dict[OtherTeam(team)].game_event
    IN  {i \in S : /\ p \in DOMAIN game_event
                   /\ events[i].EVENTNUM >= game_event[p]}

C19_PossessionFormula ==
    Rated =>
        \A team \in Teams, p \in GamePeriods :
            LET r == rating_dict[team][p]
                off == EventsOf(team, p)
                def == OtherEventsOf(team, p)
            IN  /\ PossessionFormula(AfterEntry(off, team, p),
                                     r.off_rating.penalty.poss)
                /\ PossessionFormula(off \ AfterEntry(off, team, p),
                                     r.off_rating.no_penalty.poss)
                /\ PossessionFormula(AfterEntry(def, team, p),
                                     r.def_rating.penalty.poss)
                /\ PossessionFormula(def \ AfterEntry(def, team, p),
                                     r.def_rating.no_penalty.poss)

\* The worked example: ten field-goal attempts, four free throws, two
\* offensive rebounds and three turnovers of the home team in a period.
C19_Witness ==
    /\ Rated
    /\ Flagged(EventsOf(home_id, 1), "FGA") = 10
    /\ Flagged(EventsOf(home_id, 1), "FTA") = 4
    /\ Flagged(EventsOf(home_id, 1), "OREB") = 2
    /\ Flagged(EventsOf(home_id, 1), "TOV") = 3
    /\ rating_dict[home_id][1].off_rating.no_penalty.poss = 1245376

(***************************************************************************)
(* C20.  A rebound is flagged as an offensive rebound if and only if its   *)
(* team is the team of the latest shot attempt before it.  The shooting    *)
(* team of an event is its own team if it is a shot attempt and otherwise  *)
(* that of the event before it, and it is null until the first shot        *)
(* attempt of the game, so that no rebound before it is flagged.           *)
(***************************************************************************)
C20_OffensiveRebound ==
    Rated =>
        \A i \in DOMAIN events :
            /\ events[i].SHOOTING_TEAM =
                  IF ShotAttempt(events[i]) THEN events[i].PLAYER1_TEAM_ID
                  ELSE IF i = 1 THEN None
                  ELSE events[i - 1].SHOOTING_TEAM
            /\ (\A j \in 1..i : ~ShotAttempt(events[j])) =>
                  /\ events[i].SHOOTING_TEAM = None
                  /\ events[i].OREB = 0
            /\ events[i].OREB = 1 <=> OffensiveRebound(i)
            /\ events[i].OREB \in {0, 1}

\* A rebound by the team of the latest shot, after an event that is not a
\* shot attempt, is flagged; the shooting team was carried through.
C20_Witness ==
    /\ Rated
    /\ \E i \in DOMAIN events :
        /\ i > 2
        /\ events[i].EVENTMSGTYPE = Rebound
        /\ ~ShotAttempt(events[i - 1])
        /\ events[i - 1].SHOOTING_TEAM = events[i].PLAYER1_TEAM_ID
        /\ events[i].OREB = 1

(***************************************************************************)
(* Vocabulary of the properties of the aggregate rows.                     *)
(***************************************************************************)
\* The periods played in the last game: the latest period of its events.
PeriodsPlayed == MaxOf({events[i].PERIOD : i \in DOMAIN events})

\* n periods in seconds: regulation length for the first four periods, the
\* overtime length for each one beyond.
SecondsPlayed(n) ==
    (IF n < QUARTERS THEN n ELSE QUARTERS) * QUARTER_LENGTH[league_id]
        + (IF n > QUARTERS THEN n - QUARTERS ELSE 0) * OT_LENGTH[league_id]

(***************************************************************************)
(* C21.  The game length of each aggregate row of a game is the periods    *)
(* played in seconds: with n periods played, min(n, 4) regulation periods  *)
(* and max(n - 4, 0) overtime periods, for every n >= 1.                   *)
(***************************************************************************)
C21_GameLength ==
    Rated =>
        \A team \in Teams :
            RatingRow(team).game_length = SecondsPlayed(PeriodsPlayed)

(***************************************************************************)
(* C22.  In the two aggregate rows of a game the fouls against, the own    *)
(* time in bonus and the free throws gained of each team, and their        *)
(* first-three-periods variants, are the fouls committed, the opponent's   *)
(* time in bonus and the free throws allowed of the other team; each       *)
(* full-game committed or allowed figure is the sum over the periods of    *)
(* the team's own per-period record.                                       *)
(***************************************************************************)
C22_AggregatorMirror ==
    Rated =>
        \A pair \in {<<home_id, away_id>>, <<away_id, home_id>>} :
            LET a == RatingRow(pair[1])
                b == RatingRow(pair[2])
                rec == penalty_dict[pair[2]]
            IN  /\ a.fouls_against = b.fouls_committed
                /\ a.own_tib = b.opp_tib
                /\ a.ft_gained = b.ft_allowed
                /\ a.fouls_3q_against = b.fouls_3q_committed
                /\ a.own_3q_tib = b.opp_3q_tib
                /\ a.ft_3q_gained = b.ft_3q_allowed
                /\ b.fouls_committed = SumOver(rec.fouls, DOMAIN rec.fouls)
                /\ b.opp_tib = SumOver(rec.time, DOMAIN rec.time)
                /\ b.ft_allowed =
                      SumOver(rec.free_throws, DOMAIN rec.free_throws)

\* Both teams fouled, one more than the other; that one let the opponent
\* into the bonus and gave free throws.
C22_Witness ==
    /\ Rated
    /\ \E pair \in {<<home_id, away_id>>, <<away_id, home_id>>} :
        LET a == RatingRow(pair[1])
            b == RatingRow(pair[2])
        IN  /\ b.fouls_committed > a.fouls_committed
            /\ a.fouls_committed > 0
            /\ b.opp_tib > 0
            /\ b.ft_allowed > 0
            /\ a.own_tib = b.opp_tib
            /\ a.fouls_against > a.fouls_committed

\* The value of a per-period record for period p, 0 where it has none.
ValueAt(f, p) == IF p \in DOMAIN f THEN f[p] ELSE 0

\* The per-period values of periods 1, 2 and 3 together.
FirstThree(f) == ValueAt(f, 1) + ValueAt(f, 2) + ValueAt(f, 3)

\* The per-period values of period 4 and of every overtime period together.
FourthAndLater(f) == SumOver(f, {p \in DOMAIN f : p >= 4})

(***************************************************************************)
(* C23.  Each first-three-periods figure of an aggregate row (fouls, time  *)
(* in bonus, free throws; committed and against) is the sum of the         *)
(* per-period values of periods 1, 2 and 3 only: it never exceeds the      *)
(* full-game figure, which is larger by the values of period 4 and of the  *)
(* overtime periods.                                                       *)
(***************************************************************************)
C23_FirstThreePeriods ==
    Rated =>
        \A team \in Teams :
            LET r == RatingRow(team)
                own == penalty_dict[team]
                opp == penalty_dict[OtherTeam(team)]
                Cut(part, whole, f) ==
                    /\ part = FirstThree(f)
                    /\ part <= whole
                    /\ whole - part = FourthAndLater(f)
            IN  /\ Cut(r.fouls_3q_committed, r.fouls_committed, own.fouls)
                /\ Cut(r.opp_3q_tib, r.opp_tib, own.time)
                /\ Cut(r.ft_3q_allowed, r.ft_allowed, own.free_throws)
                /\ Cut(r.fouls_3q_against, r.fouls_against, opp.fouls)
                /\ Cut(r.own_3q_tib, r.own_tib, opp.time)
                /\ Cut(r.ft_3q_gained, r.ft_gained, opp.free_throws)

\* A game with fouls in the first three periods and later, and with bonus
\* time after period 3: the full-game figures are the larger ones.
C23_Witness ==
    /\ Rated
    /\ \E team \in Teams :
        LET r == RatingRow(team)
        IN  /\ r.fouls_3q_committed > 0
            /\ r.fouls_committed > r.fouls_3q_committed
            /\ r.opp_tib > r.opp_3q_tib
            /\ RatingRow(OtherTeam(team)).own_tib > 0

(***************************************************************************)
(* Vocabulary of the properties of the shot tables.                        *)
(***************************************************************************)
\* The shot chart that the last game was finished with.
ShotChart == game_log[game_idx].shots

\* How often the record s occurs among the rows of a table.
Occurrences(df, s) == Cardinality({i \in DOMAIN df : df[i] = s})

\* The opponent of the shooting team has a bonus-entry marker for the period
\* of the shot, and the shot is not before it.
ShotInBonus(s) ==
    LET marker == penalty_dict[OtherTeam(s.TEAM_ID)].game_event
    IN  /\ s.PERIOD \in DOMAIN marker
        /\ s.GAME_EVENT_ID >= marker[s.PERIOD]

(***************************************************************************)
(* C24.  Every shot of the shot chart of a game is placed in exactly one   *)
(* of the two shot tables, once: in the in-bonus table if and only if the  *)
(* opponent of the shooting team has a bonus-entry marker E for the period *)
(* of the shot and the event number of the shot is at least E, in the      *)
(* non-bonus table otherwise; the tables hold no other row of the game.    *)
(***************************************************************************)
C24_ShotPartition ==
    Rated =>
        /\ \A i \in DOMAIN ShotChart :
              LET s == ShotChart[i]
                  in_p == Occurrences(penalty_df, s)
                  in_np == Occurrences(non_penalty_df, s)
              IN  /\ in_p + in_np = Occurrences(ShotChart, s)
                  /\ IF ShotInBonus(s) THEN in_np = 0 ELSE in_p = 0
        /\ \A i \in DOMAIN penalty_df :
              penalty_df[i].GAME_ID = game_idx =>
                  Occurrences(ShotChart, penalty_df[i]) > 0
        /\ \A i \in DOMAIN non_penalty_df :
              non_penalty_df[i].GAME_ID = game_idx =>
                  Occurrences(ShotChart, non_penalty_df[i]) > 0

\* A game whose second period has the bonus-entry marker 3 of one team: of
\* the opponent's shots of that period, the one numbered 2 is in the
\* non-bonus table and the one numbered 3 in the in-bonus table, and a shot
\* of a period without marker is in the non-bonus table.
C24_Witness ==
    /\ Rated
    /\ \E team \in Teams :
        LET marker == penalty_dict[OtherTeam(team)].game_event
        IN  /\ 2 \in DOMAIN marker
            /\ marker[2] = 3
            /\ 1 \notin DOMAIN marker
            /\ Occurrences(non_penalty_df, Shot(game_idx, team, 2, 2)) = 1
            /\ Occurrences(penalty_df, Shot(game_idx, team, 2, 3)) = 1
            /\ Occurrences(non_penalty_df, Shot(game_idx, team, 1, 2)) = 1

\* The fraction f = <<numerator, denominator>> is the quotient num / den.
IsQuotient(f, num, den) == f[2] > 0 /\ f[1] * den = num * f[2]

\* The fraction f lies in [0, 1].
InUnitInterval(f) == 0 <= f[1] /\ f[1] <= f[2]

(***************************************************************************)
(* C25.  The full-game bonus-time fractions of an aggregate row are its    *)
(* times in bonus divided by its game length, the first-three-periods      *)
(* fractions are its three-period times in bonus divided by three          *)
(* regulation periods, and each of the four fractions lies in [0, 1].      *)
(***************************************************************************)
C25_NormalizedBonusTime ==
    Rated =>
        \A team \in Teams :
            LET r == RatingRow(team)
                three_periods == 3 * QUARTER_LENGTH[league_id]
            IN  /\ IsQuotient(r.opp_percent_tib, r.opp_tib, r.game_length)
                /\ IsQuotient(r.own_percent_tib, r.own_tib, r.game_length)
                /\ IsQuotient(r.opp_percent_3q_tib, r.opp_3q_tib, three_periods)
                /\ IsQuotient(r.own_percent_3q_tib, r.own_3q_tib, three_periods)
                /\ InUnitInterval(r.opp_percent_tib)
                /\ InUnitInterval(r.own_percent_tib)
                /\ InUnitInterval(r.opp_percent_3q_tib)
                /\ InUnitInterval(r.own_percent_3q_tib)

\* An overtime game in which a team was in the bonus after period 3 only:
\* its full-game fraction lies strictly between 0 and 1, over a game length
\* of more than four regulation periods, and its three-period fraction is 0.
C25_Witness ==
    /\ Rated
    /\ \E team \in Teams :
        LET r == RatingRow(team)
        IN  /\ r.game_length > 4 * QUARTER_LENGTH[league_id]
            /\ r.opp_tib > 0
            /\ r.opp_3q_tib = 0
            /\ r.opp_percent_tib[1] > 0
            /\ r.opp_percent_tib[1] < r.opp_percent_tib[2]
            /\ r.opp_percent_3q_tib = <<0, 1>>
            /\ RatingRow(OtherTeam(team)).own_percent_tib = r.opp_percent_tib

(***************************************************************************)
(* C27.  Every row of the foul stream is applied with the tracked period   *)
(* equal to the row's own period: a row of another period than the tracked *)
(* one resets the tracker, and after the reset the tracked period is the   *)
(* row's period, also when that is more than one period ahead.             *)
(***************************************************************************)
C27_PeriodTracking ==
    HasResult =>
        \A j \in DOMAIN rows : row_period[j] = rows[j].PERIOD

\* The step reads one more event of the current game.
TrackerStep == pc = "fouls" /\ pc' = "fouls"

(***************************************************************************)
(* C28.  Once the in-bonus flag of a team is true it stays true after      *)
(* every later event of the tracked period, fouls of either team and       *)
(* non-qualifying events alike; the only step after which it is false      *)
(* again is the reset that opens the next period.                          *)
(***************************************************************************)
C28_StickyFlag ==
    [][TrackerStep =>
        \A team \in Teams :
            DictOf(team).penalty =>
                /\ period' = period => DictOf(team)'.penalty
                /\ ~DictOf(team)'.penalty =>
                      /\ RowStep
                      /\ NewRow.PERIOD # period
                      /\ period' = period + 1]_vars

\* A team entered the bonus, and after it came a foul of the other team and
\* a non-qualifying event in the same period: the flag is still true.
C28_Witness ==
    /\ pc = "fouls"
    /\ \E team \in Teams :
        /\ DictOf(team).penalty
        /\ period \in DOMAIN penalty_dict[team].game_event
        /\ \E j, k \in DOMAIN rows :
            /\ row_period[j] = period
            /\ row_period[k] = period
            /\ rows[j].EVENTNUM > penalty_dict[team].game_event[period]
            /\ rows[k].EVENTNUM > penalty_dict[team].game_event[period]
            /\ Qualifies(rows[j])
            /\ rows[j].PLAYER1_TEAM_ID = OtherTeam(team)
            /\ ~Qualifies(rows[k])

\* The non-shooting qualifying fouls of a team in the tracked period p that
\* come strictly after the team's bonus-entry event of p; none without one.
FoulsAfterEntry(team, p) ==
    LET marker == penalty_dict[team].game_event
    IN  IF p \in DOMAIN marker
        THEN {j \in FoulsIn(team, p, Len(rows)) :
                 NonShooting(rows[j]) /\ rows[j].EVENTNUM > marker[p]}
        ELSE {}

(***************************************************************************)
(* C29.  The free-throw tally of a team and a period counts the            *)
(* non-shooting fouls of the team that come strictly after its bonus-entry *)
(* event of the period, two free throws each, and nothing else: the foul   *)
(* on which the team enters the bonus adds nothing, whatever its subtype,  *)
(* and a tally above 0 implies that the marker of the team and period      *)
(* exists.                                                                 *)
(***************************************************************************)
C29_EntryFoulAddsNothing ==
    HasResult =>
        \A team \in Teams :
            LET rec == penalty_dict[team]
            IN  \A p \in DOMAIN rec.free_throws :
                    /\ rec.free_throws[p] =
                          2 * Cardinality(FoulsAfterEntry(team, p))
                    /\ rec.free_throws[p] > 0 => p \in DOMAIN rec.game_event

\* A team entered the bonus on a non-shooting foul and committed one more
\* non-shooting foul in the period: its tally is 2, not 4.
C29_Witness ==
    /\ pc = "fouls"
    /\ \E team \in Teams :
        LET rec == penalty_dict[team]
        IN  /\ period \in DOMAIN rec.game_event
            /\ \E j \in FoulsIn(team, period, Len(rows)) :
                  /\ rows[j].EVENTNUM = rec.game_event[period]
                  /\ NonShooting(rows[j])
            /\ Cardinality(FoulsAfterEntry(team, period)) = 1
            /\ rec.free_throws[period] = 2

(***************************************************************************)
(* C30.  For every team and period in which the opponent entered the       *)
(* bonus, the in-bonus and the non-bonus offensive segment share no event  *)
(* and together hold every event of the team in the period: their points   *)
(* and turnovers sum to those of the whole period, and their possessions   *)
(* to the possession estimate of the field-goal attempts, free-throw       *)
(* attempts, offensive rebounds and turnovers of the whole period.         *)
(***************************************************************************)
C30_SegmentConservation ==
    Rated =>
        \A team \in Teams, p \in GamePeriods :
            p \in DOMAIN penalty_dict[OtherTeam(team)].game_event =>
                LET off == rating_dict[team][p].off_rating
                    all == EventsOf(team, p)
                IN  /\ off.penalty.points + off.no_penalty.points
                          = PointsOver(all)
                    /\ off.penalty.tov + off.no_penalty.tov
                          = Flagged(all, "TOV")
                    /\ off.penalty.poss + off.no_penalty.poss
                          = 976 * (100 * Flagged(all, "FGA")
                                   + 44 * Flagged(all, "FTA")
                                   - 100 * Flagged(all, "OREB")
                                   + 100 * Flagged(all, "TOV"))

\* A team scored before and after the bonus entry of its opponent in a
\* period: both segments have points and possessions.
C30_Witness ==
    /\ Rated
    /\ \E team \in Teams, p \in GamePeriods :
        LET off == rating_dict[team][p].off_rating
        IN  /\ p \in DOMAIN penalty_dict[OtherTeam(team)].game_event
            /\ off.penalty.points > 0
            /\ off.no_penalty.points > 0
            /\ off.penalty.poss > 0
            /\ off.no_penalty.poss > 0
            /\ PointsOver(EventsOf(team, p)) >= 4

(***************************************************************************)
(* Two games side by side.  Each of two calls of team_foul_tracker has its *)
(* own foul rows; a step is one iteration of the loop of one call, or its   *)
(* return followed by process_output, and the steps of the two calls        *)
(* interleave in any order.  The status variables of a call are locals of  *)
(* the call and the dictionaries are built anew by                         *)
(* initialize_status_variables: the call c works on the frame frame_of(c). *)
(***************************************************************************)
Cores == {1, 2}

\* Variant: the status variables are kept in one place for all calls.
frame_of_shared(c) == 1

frame_of(c) == c

\* The foul rows of a call: personal fouls of either team at 2:00, in the
\* period of the row before or in the next one, up to MaxCoreRows rows and
\* periods.
CoreRows(fed) ==
    IF Len(fed) < MaxCoreRows
    THEN {AsFoul(r) : r \in
            [EVENTNUM : {Len(fed) + 1},
             PERIOD : {q \in {LastPeriod(fed), LastPeriod(fed) + 1} :
                          q <= MaxCoreRows},
             PCTIMESTRING : SparseClocks,
             EVENTMSGACTIONTYPE : {1},
             PLAYER1_TEAM_ID : Teams]}
    ELSE {}

CoreInit ==
    /\ GameInit
    /\ league_id = LEAGUE_ID_MAP["NBA"]
    /\ frames = [f \in Cores |-> status_variables(league_id)]
    /\ calls = [c \in Cores |-> [fed |-> <<>>, returned |-> FALSE,
                                 full_df |-> <<>>]]

\* One iteration of the loop over foul_df in the call c.
CoreRow(c) ==
    \E row \in CoreRows(calls[c].fed) :
    /\ ~calls[c].returned
    /\ frames' = [frames EXCEPT
                    ![frame_of(c)] = foul_loop(@, row, league_id)]
    /\ calls' = [calls EXCEPT ![c].fed = Append(@, row)]
    /\ UNCHANGED game_vars

\* The call c stores the totals of its last period and returns; the home
\* team is the winner, and process_output gives the aggregate rows.
CoreReturn(c) ==
    /\ ~calls[c].returned
    /\ LET pd == final_period_totals(frames[frame_of(c)])
       IN  /\ frames' = [frames EXCEPT ![frame_of(c)].penalty_dict = pd]
           /\ calls' = [calls EXCEPT
                          ![c].returned = TRUE,
                          ![c].full_df = process_output(pd, home_id, league_id)]
    /\ UNCHANGED game_vars

CoreNext == \E c \in Cores : CoreRow(c) \/ CoreReturn(c)

CoreSpec == CoreInit /\ [][CoreNext]_vars

(***************************************************************************)
(* Vocabulary of the properties of two games side by side.                 *)
(***************************************************************************)
\* The status variables after team_foul_tracker has iterated the rows fed,
\* run on its own from fresh status variables.
RECURSIVE Alone(_)
Alone(fed) ==
    IF fed = <<>> THEN status_variables(league_id)
    ELSE foul_loop(Alone(SubSeq(fed, 1, Len(fed) - 1)), fed[Len(fed)], league_id)

\* What the call c has come to on its own: its status variables, and the
\* penalty records it returns.
AloneNow(c) == Alone(calls[c].fed)
AloneResult(c) == final_period_totals(AloneNow(c))

Unqualified(r) == [r EXCEPT !.EVENTMSGACTIONTYPE = 0]

\* The status variables the tracker would have after the new row, had the
\* row not been a qualifying foul: the period turnover the row brings, if
\* any, and nothing else.
WithoutFoul ==
    foul_loop([period |-> period, home_dict |-> home_dict,
               away_dict |-> away_dict, penalty_dict |-> penalty_dict],
              Unqualified(NewRow), league_id)

\* The transient foul state of a team in a record of status variables.
DictIn(st, team) == IF team = home_id THEN st.home_dict ELSE st.away_dict

(***************************************************************************)
(* C31.  A qualifying foul of team T changes the transient foul state and  *)
(* the penalty record of T only.  The foul count, last-two-minutes count,  *)
(* last-foul time and in-bonus flag of the opponent, and the opponent's    *)
(* penalty record (bonus-entry marker and time, elapsed-time entries,      *)
(* free throws, foul totals) are after the foul what they would be without *)
(* it: unchanged when the row is in the tracked period, and what the       *)
(* period turnover alone makes them when the row opens a new period.  The  *)
(* tracked period is not changed by the foul either.                       *)
(***************************************************************************)
C31_OpponentFrame ==
    [][RowStep =>
        \A team \in Teams :
            FoulBy(team) =>
                LET opp == OtherTeam(team)
                IN  /\ period' = WithoutFoul.period
                    /\ DictOf(opp)' = DictIn(WithoutFoul, opp)
                    /\ penalty_dict'[opp] = WithoutFoul.penalty_dict[opp]
                    /\ NewRow.PERIOD = period =>
                          /\ DictOf(opp)' = DictOf(opp)
                          /\ penalty_dict'[opp] = penalty_dict[opp]
                    /\ DOMAIN penalty_dict' = DOMAIN penalty_dict]_vars

\* The opponent is in the bonus of the tracked period with fouls counted and
\* a marker stored, and the last row is a qualifying foul of the other team
\* in the same period, with which that team entered the bonus itself.
C31_Witness ==
    /\ pc = "fouls"
    /\ Len(rows) >= 2
    /\ LET r == rows[Len(rows)]
           team == r.PLAYER1_TEAM_ID
           opp == OtherTeam(team)
       IN  /\ Qualifies(r)
           /\ team \in Teams
           /\ row_period[Len(rows) - 1] = period
           /\ DictOf(opp).penalty
           /\ DictOf(opp).fouls >= 1
           /\ period \in DOMAIN penalty_dict[opp].game_event
           /\ penalty_dict[opp].game_event[period] < r.EVENTNUM
           /\ period \in DOMAIN penalty_dict[team].game_event
           /\ penalty_dict[team].game_event[period] = r.EVENTNUM

(***************************************************************************)
(* Vocabulary of the win indicator.                                        *)
(***************************************************************************)
\* The aggregate rows of game g that belong to a team.
TeamRows(g, team) == {i \in AggregateRows(g) : total_df[i].team_id = team}

\* The line score of game g has the home team strictly ahead.
HomeAhead(g) == game_log[g].line[1][1] > game_log[g].line[2][1]

(***************************************************************************)
(* C32.  Every game that yields aggregate rows yields one row of the home  *)
(* team and one of the away team, both scores of the game are known, one   *)
(* of the two rows has win = 1 and the other win = 0, and the home row has *)
(* win = 1 exactly when the home score is strictly greater than the away   *)
(* score: with equal scores the away row has win = 1.                      *)
(***************************************************************************)
C32_WinIndicator ==
    \A g \in DOMAIN game_log :
        AggregateRows(g) # {} =>
            /\ game_log[g].line[1] # Null
            /\ game_log[g].line[2] # Null
            /\ Cardinality(AggregateRows(g)) = 2
            /\ \E h \in TeamRows(g, home_id), a \in TeamRows(g, away_id) :
                  /\ total_df[h].win \in {0, 1}
                  /\ total_df[a].win = 1 - total_df[h].win
                  /\ total_df[h].win = 1 <=> HomeAhead(g)

\* Two games gave rows: one with equal scores, whose away row has win = 1,
\* and one that the home team won.
C32_Witness ==
    /\ game_idx = 2
    /\ pc = "games"
    /\ game_log[1].line[1] # Null
    /\ game_log[1].line[1] = game_log[1].line[2]
    /\ \E a \in TeamRows(1, away_id) : total_df[a].win = 1
    /\ \E h \in TeamRows(1, home_id) : total_df[h].win = 0
    /\ game_log[2].line[1] # Null
    /\ game_log[2].line[2] # Null
    /\ HomeAhead(2)
    /\ \E h \in TeamRows(2, home_id) : total_df[h].win = 1
    /\ \E a \in TeamRows(2, away_id) : total_df[a].win = 0

====
